---- MODULE Spec2Model ----
(***************************************************************************)
(* html5tagger: the Builder (src/html5tagger/builder.py), its helpers      *)
(* (util.py, html5.py) and the tree reconstructor (parser.py).             *)
(*                                                                         *)
(* A Python str is a sequence of one-character strings.  A Builder object  *)
(* is an index into the heap H.b; object identity is index equality.       *)
(***************************************************************************)
EXTENDS Integers, Sequences, FiniteSets, TLC

VARIABLES H, op, out, nc, nops, in

vars == <<H, op, out, nc, nops, in>>

\* ------------------------------------------------------------------ bounds
\* Builder objects that may exist at once (the heap size).
NB == 4
\* Builder operations in one behaviour.
MaxOps == 3
\* create() calls in one behaviour.
MaxCreate == 2

\* ------------------------------------------------------------- characters
Lowers == <<"a","b","c","d","e","f","g","h","i","j","k","l","m","n","o","p","q","r","s","t","u","v","w","x","y","z">>

Uppers == <<"A","B","C","D","E","F","G","H","I","J","K","L","M","N","O","P","Q","R","S","T","U","V","W","X","Y","Z">>

Digits == {"0","1","2","3","4","5","6","7","8","9"}

Range(f) == {f[i] : i \in DOMAIN f}

\* str.isupper() of one character
isupper(c) == c \in Range(Uppers)

\* str.isalnum() of one character
isalnumChar(c) == c \in Range(Lowers) \cup Range(Uppers) \cup Digits

\* str.isalnum(): every character alphanumeric and at least one character
isalnum(s) == Len(s) > 0 /\ \A i \in 1..Len(s) : isalnumChar(s[i])

\* the regex class \w
isword(c) == isalnumChar(c) \/ c = "_"

\* str.lower() of one character (re.IGNORECASE compares case-folded)
lower(c) == IF isupper(c) THEN Lowers[CHOOSE i \in 1..26 : Uppers[i] = c] ELSE c

startswith(s, prefix) == Len(s) >= Len(prefix) /\ SubSeq(s, 1, Len(prefix)) = prefix

endswith(s, suffix) == Len(s) >= Len(suffix) /\ SubSeq(s, Len(s) - Len(suffix) + 1, Len(s)) = suffix

\* str.replace(old, new): non-overlapping occurrences, left to right
RECURSIVE replace(_, _, _)
replace(s, old, new) ==
    IF Len(s) < Len(old) THEN s
    ELSE IF SubSeq(s, 1, Len(old)) = old
         THEN new \o replace(SubSeq(s, Len(old) + 1, Len(s)), old, new)
         ELSE <<s[1]>> \o replace(Tail(s), old, new)

\* str.rstrip("_")
RECURSIVE rstrip_underscore(_)
rstrip_underscore(s) ==
    IF Len(s) > 0 /\ s[Len(s)] = "_" THEN rstrip_underscore(SubSeq(s, 1, Len(s) - 1)) ELSE s

\* ------------------------------------------------------------------ util.py
escape(text) == replace(replace(text, <<"&">>, <<"&","a","m","p",";">>), <<"<">>, <<"&","l","t",";">>)

mangle(name) == replace(rstrip_underscore(name), <<"_">>, <<"-">>)

\* Mutant of escape_special: the pattern is matched without re.IGNORECASE.
RECURSIVE escape_special_cased(_, _)
escape_special_cased(word, text) ==
    LET n == Len(word) + 2
        ismatch == Len(text) >= n /\ SubSeq(text, 1, n) = <<"<", "/">> \o word
    IN  IF Len(text) = 0 THEN <<>>
        ELSE IF ismatch
             THEN <<"<", "\\", "/">> \o SubSeq(text, 3, n) \o escape_special_cased(word, SubSeq(text, n + 1, Len(text)))
             ELSE <<text[1]>> \o escape_special_cased(word, Tail(text))

\* re.sub of "</(script>)" / "</(style>)" with re.IGNORECASE by r'<\\/\1':
\* word is "script>" or "style>"; the matched text keeps its own case.
RECURSIVE escape_special(_, _)
escape_special(word, text) ==
    LET n == Len(word) + 2
        ismatch == /\ Len(text) >= n
                   /\ text[1] = "<" /\ text[2] = "/"
                   /\ \A i \in 1..Len(word) : lower(text[i + 2]) = word[i]
    IN  IF Len(text) = 0 THEN <<>>
        ELSE IF ismatch
             THEN <<"<", "\\", "/">> \o SubSeq(text, 3, n) \o escape_special(word, SubSeq(text, n + 1, Len(text)))
             ELSE <<text[1]>> \o escape_special(word, Tail(text))

esc_script == <<"s","c","r","i","p","t",">">>

esc_style == <<"s","t","y","l","e",">">>

\* Mutant of attributes: in a quoted value the quote is escaped before the
\* ampersand, so the ampersand of &quot; is escaped again.
RECURSIVE attributes_quote_first(_)
attributes_quote_first(attrs) ==
    IF Len(attrs) = 0 THEN <<>>
    ELSE LET k == mangle(attrs[1].k)
             v == attrs[1].v
             quoted == <<"\"">> \o replace(replace(v.s, <<"\"">>, <<"&","q","u","o","t",";">>), <<"&">>, <<"&","a","m","p",";">>) \o <<"\"">>
             one == IF v.t \in {"None", "False"} THEN <<>>
                    ELSE IF v.t = "True" THEN <<" ">> \o k
                    ELSE <<" ">> \o k \o <<"=">> \o (IF isalnum(v.s) THEN v.s ELSE quoted)
         IN  one \o attributes_quote_first(Tail(attrs))

\* An attribute value is None, False, True or any other object (its str()).
\* attrs is a sequence of [k |-> name, v |-> [t |-> kind, s |-> str(v)]].
RECURSIVE attributes(_)
attributes(attrs) ==
    IF Len(attrs) = 0 THEN <<>>
    ELSE LET k == mangle(attrs[1].k)
             v == attrs[1].v
             quoted == <<"\"">> \o replace(replace(v.s, <<"&">>, <<"&","a","m","p",";">>), <<"\"">>, <<"&","q","u","o","t",";">>) \o <<"\"">>
             one == IF v.t \in {"None", "False"} THEN <<>>
                    ELSE IF v.t = "True" THEN <<" ">> \o k
                    ELSE <<" ">> \o k \o <<"=">> \o (IF isalnum(v.s) THEN v.s ELSE quoted)
         IN  one \o attributes(Tail(attrs))

\* ----------------------------------------------------------------- html5.py
void == {<<"a","r","e","a">>, <<"b","a","s","e">>, <<"b","r">>, <<"c","o","l">>, <<"e","m","b","e","d">>, <<"h","r">>, <<"i","m","g">>, <<"i","n","p","u","t">>, <<"k","e","y","g","e","n">>, <<"l","i","n","k">>, <<"m","e","n","u","i","t","e","m">>, <<"m","e","t","a">>, <<"p","a","r","a","m">>, <<"s","o","u","r","c","e">>, <<"t","r","a","c","k">>, <<"w","b","r">>}

optional == {<<"h","t","m","l">>, <<"h","e","a","d">>, <<"b","o","d","y">>, <<"p">>, <<"c","o","l","g","r","o","u","p">>, <<"t","h","e","a","d">>, <<"t","b","o","d","y">>, <<"t","f","o","o","t">>, <<"t","r">>, <<"t","h">>, <<"t","d">>, <<"l","i">>, <<"d","t">>, <<"d","d">>, <<"o","p","t","g","r","o","u","p">>, <<"o","p","t","i","o","n">>}

omit_endtag == void \cup optional

\* --------------------------------------------------------------- builder.py
\* A piece of Builder._pieces: a str (b = 0) or a reference to a Builder (b # 0).
StrPiece(s) == [b |-> 0, s |-> s]

BuilderPiece(id) == [b |-> id, s |-> <<>>]

isinstance_Builder(piece) == piece.b # 0

\* Names of template placeholders used as inputs (uppercase identifiers).
SlotNames == {<<"A">>, <<"B">>}

E_Builder == <<"E"," ","B","u","i","l","d","e","r">>

OK == "ok"

\* Builder.__init__ followed by Builder._clear
Builder(name) == [name |-> name, _pieces |-> <<>>, _templates |-> [s \in SlotNames |-> 0], _endtag |-> <<>>, _stack |-> <<>>]

\* An exception leaves the mutations made so far and skips the rest of the call.
Raise(h, e) == IF h.err = OK THEN [h EXCEPT !.err = e, !.ret = 0] ELSE h

Return(h, id) == IF h.err = OK THEN [h EXCEPT !.ret = id] ELSE h

\* dict.get(name) on _templates: 0 stands for None
templates_get(h, self, name) == IF name \in SlotNames THEN h.b[self]._templates[name] ELSE 0

_clear(h, self) == [h EXCEPT !.b[self]._pieces = <<>>, !.b[self]._templates = [s \in SlotNames |-> 0], !.b[self]._endtag = <<>>, !.b[self]._stack = <<>>]

Reversed(s) == [i \in 1..Len(s) |-> s[Len(s) - i + 1]]

\* Mutant of _allpieces: the stack is appended as stored, outermost scope first.
allpieces_stack_as_stored(h, self) ==
    h.b[self]._pieces \o <<StrPiece(h.b[self]._endtag)>> \o [i \in 1..Len(h.b[self]._stack) |-> StrPiece(h.b[self]._stack[i])]

_allpieces(h, self) ==
    h.b[self]._pieces \o <<StrPiece(h.b[self]._endtag)>> \o [i \in 1..Len(h.b[self]._stack) |-> StrPiece(Reversed(h.b[self]._stack)[i])]

_endtag_close(h, self) ==
    IF h.b[self]._endtag # <<>>
    THEN [h EXCEPT !.b[self]._pieces = Append(@, StrPiece(h.b[self]._endtag)), !.b[self]._endtag = <<>>]
    ELSE h

\* Builders reachable from self through Builder pieces in at most k steps.
RECURSIVE Reach(_, _, _)
Reach(h, set, k) ==
    LET nxt == set \cup ({p.b : p \in UNION {Range(h.b[x]._pieces) : x \in set}} \ {0})
    IN  IF k = 0 \/ nxt = set THEN set ELSE Reach(h, nxt, k - 1)

\* self occurs in its own piece graph: str(self) recurses without end.
Cyclic(h, self) ==
    \E x \in Reach(h, {self}, NB) : \E p \in Range(h.b[x]._pieces) : p.b # 0 /\ x \in Reach(h, {p.b}, NB)

\* Builder.__str__: "".join(str(frag) for frag in self._allpieces); defined when
\* not Cyclic(h, self) (Python raises RecursionError otherwise).
RECURSIVE str(_, _)
RECURSIVE join_str(_, _)
join_str(h, frags) ==
    IF Len(frags) = 0 THEN <<>>
    ELSE (IF isinstance_Builder(frags[1]) THEN str(h, frags[1].b) ELSE frags[1].s) \o join_str(h, Tail(frags))

str(h, self) == join_str(h, _allpieces(h, self))

\* Mutant of open_tag: the omit-set is asked about the attribute name, not
\* about the mangled tag name.
open_tag_omit_by_name(h, self, name) ==
    LET tagname == mangle(name)
        h1 == _endtag_close(h, self)
        h2 == [h1 EXCEPT !.b[self]._pieces = Append(@, StrPiece(<<"<">> \o tagname \o <<">">>))]
        h3 == IF name \notin omit_endtag
              THEN [h2 EXCEPT !.b[self]._endtag = <<"<", "/">> \o tagname \o <<">">>]
              ELSE h2
    IN  Return(h3, self)

\* Builder.__getattr__, the tag branch ("Otherwise it is a tag")
open_tag(h, self, name) ==
    LET tagname == mangle(name)
        h1 == _endtag_close(h, self)
        h2 == [h1 EXCEPT !.b[self]._pieces = Append(@, StrPiece(<<"<">> \o tagname \o <<">">>))]
        h3 == IF tagname \notin omit_endtag
              THEN [h2 EXCEPT !.b[self]._endtag = <<"<", "/">> \o tagname \o <<">">>]
              ELSE h2
    IN  Return(h3, self)

\* Mutant of template_placeholder: every insert makes a new Builder for the
\* name, whether one is stored or not.
template_placeholder_always_new(h, self, name) ==
    LET add_to_doc == endswith(name, <<"_">>)
        nm == IF add_to_doc THEN SubSeq(name, 1, Len(name) - 1) ELSE name
    IN  IF ~add_to_doc THEN (IF templates_get(h, self, nm) # 0 THEN Return(h, templates_get(h, self, nm)) ELSE Raise(h, "AttributeError"))
        ELSE IF h.n >= NB THEN Raise(h, "HeapBound")
        ELSE Return([h EXCEPT !.n = @ + 1, !.b[h.n + 1] = Builder(nm), !.b[self]._templates[nm] = h.n + 1,
                              !.b[self]._pieces = Append(@, BuilderPiece(h.n + 1))], self)

\* Builder.__getattr__, the Template placeholder branch (an uppercase name)
template_placeholder(h, self, name) ==
    LET add_to_doc == endswith(name, <<"_">>)
        nm == IF add_to_doc THEN SubSeq(name, 1, Len(name) - 1) ELSE name
        found == templates_get(h, self, nm)
        h1 == IF found # 0 THEN h
              ELSE IF ~add_to_doc THEN Raise(h, "AttributeError")
              ELSE IF h.n >= NB THEN Raise(h, "HeapBound")
              ELSE [h EXCEPT !.n = @ + 1, !.b[h.n + 1] = Builder(nm), !.b[self]._templates[nm] = h.n + 1]
        builder == IF found # 0 THEN found ELSE h.n + 1
    IN  IF h1.err # OK THEN h1
        ELSE IF add_to_doc
             THEN Return([h1 EXCEPT !.b[self]._pieces = Append(@, BuilderPiece(builder))], self)
             ELSE Return(h1, builder)

\* Builder.__getattr__ for a name that normal attribute lookup does not find.
__getattr__(h, self, name) ==
    IF name[1] = "_" THEN Raise(h, "AttributeError")
    ELSE IF isupper(name[1]) THEN template_placeholder(h, self, name)
    ELSE open_tag(h, self, name)

\* Mutant of append_content: a Builder that is not a slot of the receiver has
\* its pieces spliced and its slot map is not merged.
RECURSIVE append_without_merge(_, _, _)
append_without_merge(h, self, content) ==
    IF h.err # OK THEN h
    ELSE IF Len(content) = 0 THEN Return(h, self)
    ELSE LET c == content[1]
             cb == h.b[c.b]
             h1 == IF c.t = "None" THEN h
                   ELSE IF c.t = "Builder" /\ c.b = self THEN Raise(h, "AssertionError")
                   ELSE IF c.t = "Builder"
                        THEN IF templates_get(h, self, cb.name) # 0
                             THEN [h EXCEPT !.b[self]._pieces = Append(@, BuilderPiece(c.b))]
                             ELSE [h EXCEPT !.b[self]._pieces = @ \o cb._pieces]
                   ELSE [h EXCEPT !.b[self]._pieces = Append(@, StrPiece(IF c.t = "HTML" THEN c.s ELSE escape(c.s)))]
         IN  append_without_merge(h1, self, Tail(content))

\* Builder._ : a content item is [t |-> "None" | "str" | "HTML" | "Builder", s, b]
RECURSIVE append_content(_, _, _)
append_content(h, self, content) ==
    IF h.err # OK THEN h
    ELSE IF Len(content) = 0 THEN Return(h, self)
    ELSE LET c == content[1]
             cb == h.b[c.b]
             h1 == IF c.t = "None" THEN h
                   ELSE IF c.t = "Builder" /\ c.b = self THEN Raise(h, "AssertionError")
                   ELSE IF c.t = "Builder"
                        THEN IF templates_get(h, self, cb.name) # 0
                             THEN [h EXCEPT !.b[self]._pieces = Append(@, BuilderPiece(c.b))]
                             ELSE [h EXCEPT !.b[self]._templates = [s \in SlotNames |-> IF cb._templates[s] # 0 THEN cb._templates[s] ELSE @[s]],
                                            !.b[self]._pieces = @ \o cb._pieces]
                   ELSE [h EXCEPT !.b[self]._pieces = Append(@, StrPiece(IF c.t = "HTML" THEN c.s ELSE escape(c.s)))]
         IN  append_content(h1, self, Tail(content))

\* Builder.__call__; fuel counts the nested calls into template placeholders.
RECURSIVE call_fuel(_, _, _, _, _)
call_fuel(h, self, _inner_content, _attrs, fuel) ==
    LET pieces == h.b[self]._pieces
        last == pieces[Len(pieces)]
    IN  IF fuel = 0 THEN Raise(h, "RecursionError")
        ELSE IF Len(pieces) > 0 /\ isinstance_Builder(last) THEN
            IF Len(_attrs) > 0 THEN Raise(h, "AssertionError")
            ELSE Return(call_fuel(h, last.b, _inner_content, <<>>, fuel - 1), self)
        ELSE
            LET tag == last.s
                h1 == IF Len(_attrs) = 0 THEN h
                      ELSE IF Len(pieces) = 0 THEN Raise(h, "IndexError")
                      ELSE IF Len(tag) = 0 THEN Raise(h, "IndexError")
                      ELSE IF ~(tag[1] = "<" /\ tag[Len(tag)] = ">" /\ ~startswith(tag, <<"<", "/">>))
                           THEN Raise(h, "AssertionError")
                      ELSE [h EXCEPT !.b[self]._pieces[Len(pieces)] = StrPiece(SubSeq(tag, 1, Len(tag) - 1) \o attributes(_attrs) \o <<">">>)]
                h2 == IF h1.err = OK /\ Len(_inner_content) > 0
                      THEN LET h3 == append_content(h1, self, _inner_content)
                           IN  IF h3.err = OK THEN _endtag_close(h3, self) ELSE h3
                      ELSE h1
            IN  Return(h2, self)

\* Mutant of __call__: content is appended and the pending end tag is left open.
call_without_close(h, self, _inner_content, _attrs) ==
    LET pieces == h.b[self]._pieces
    IN  IF (Len(pieces) > 0 /\ isinstance_Builder(pieces[Len(pieces)])) \/ Len(_attrs) > 0 \/ Len(_inner_content) = 0
        THEN call_fuel(h, self, _inner_content, _attrs, NB)
        ELSE append_content(h, self, _inner_content)

__call__(h, self, _inner_content, _attrs) == call_fuel(h, self, _inner_content, _attrs, NB)

\* Builder.__setattr__ for an uppercase name (a lowercase name sets a plain
\* instance attribute and is not an input here).
__setattr__(h, self, name, value) ==
    LET template == templates_get(h, self, name)
    IN  IF ~isupper(name[1]) THEN h
        ELSE IF template = 0 THEN Raise(h, "KeyError")
        ELSE [__call__(_clear(h, template), template, <<value>>, <<>>) EXCEPT !.ret = 0]

__enter__(h, self) ==
    IF h.b[self]._endtag = <<>> THEN Raise(h, "AssertionError")
    ELSE Return([h EXCEPT !.b[self]._stack = Append(@, h.b[self]._endtag), !.b[self]._endtag = <<>>], self)

\* Mutant of __exit__: the scope entered first is the one left (the stack read
\* as a queue).
exit_first_pushed(h, self) ==
    LET h1 == _endtag_close(h, self)
        stack == h1.b[self]._stack
    IN  IF Len(stack) = 0 THEN Raise(h1, "IndexError")
        ELSE [h1 EXCEPT !.b[self]._pieces = Append(@, StrPiece(stack[1])), !.b[self]._stack = Tail(stack)]

\* Mutant of __exit__: the scope's end tag is appended without closing the
\* pending end tag first.
exit_without_close(h, self) ==
    LET stack == h.b[self]._stack
    IN  IF Len(stack) = 0 THEN Raise(h, "IndexError")
        ELSE [h EXCEPT !.b[self]._pieces = Append(@, StrPiece(stack[Len(stack)])), !.b[self]._stack = SubSeq(stack, 1, Len(stack) - 1)]

__exit__(h, self) ==
    LET h1 == _endtag_close(h, self)
        stack == h1.b[self]._stack
    IN  IF Len(stack) = 0 THEN Raise(h1, "IndexError")
        ELSE [h1 EXCEPT !.b[self]._pieces = Append(@, StrPiece(stack[Len(stack)])), !.b[self]._stack = SubSeq(stack, 1, Len(stack) - 1)]

\* The character U+2012 that _comment writes in place of "-".
FIGURE_DASH == "U+2012"

_comment(h, self, text) ==
    Return([h EXCEPT !.b[self]._pieces = Append(@, StrPiece(<<"<","!","-","-">> \o replace(text, <<"-","-",">">>, <<FIGURE_DASH, FIGURE_DASH, ">">>) \o <<"-","-",">">>))], self)

_script(h, self, code, attrs) ==
    LET h1 == _endtag_close(h, self)
    IN  Return([h1 EXCEPT !.b[self]._pieces = Append(@, StrPiece(<<"<","s","c","r","i","p","t">> \o attributes(attrs) \o <<">">> \o escape_special(esc_script, code) \o <<"<","/","s","c","r","i","p","t",">">>))], self)

_style(h, self, code, attrs) ==
    LET h1 == _endtag_close(h, self)
    IN  Return([h1 EXCEPT !.b[self]._pieces = Append(@, StrPiece(<<"<","s","t","y","l","e">> \o attributes(attrs) \o <<">">> \o escape_special(esc_style, code) \o <<"<","/","s","t","y","l","e",">">>))], self)

\* ---------------------------------------------------------------- parser.py
BASIC_INLINE ==
    {<<"a">>, <<"a","b","b","r">>, <<"a","r","e","a">>, <<"b">>, <<"b","d","i">>, <<"b","d","o">>,
     <<"b","r">>, <<"b","u","t","t","o","n">>, <<"c","i","t","e">>, <<"c","o","d","e">>,
     <<"d","a","t","a">>, <<"d","a","t","a","l","i","s","t">>, <<"d","e","l">>, <<"d","f","n">>,
     <<"e","m">>, <<"i">>, <<"i","n","p","u","t">>, <<"i","n","s">>, <<"k","b","d">>,
     <<"l","a","b","e","l">>, <<"m","a","p">>, <<"m","a","r","k">>, <<"m","e","t","e","r">>,
     <<"n","o","s","c","r","i","p","t">>, <<"o","u","t","p","u","t">>, <<"q">>,
     <<"r","u","b","y">>, <<"s">>, <<"s","a","m","p">>, <<"s","e","l","e","c","t">>,
     <<"s","l","o","t">>, <<"s","m","a","l","l">>, <<"s","p","a","n">>,
     <<"s","t","r","o","n","g">>, <<"s","u","b">>, <<"s","u","p">>, <<"u">>, <<"v","a","r">>,
     <<"w","b","r">>}

MEDIA_ELEMENTS ==
    {<<"a","u","d","i","o">>, <<"c","a","n","v","a","s">>, <<"e","m","b","e","d">>,
     <<"i","f","r","a","m","e">>, <<"i","m","g">>, <<"o","b","j","e","c","t">>,
     <<"p","i","c","t","u","r","e">>, <<"s","v","g">>, <<"v","i","d","e","o">>}

FORM_ELEMENTS ==
    {<<"f","i","e","l","d","s","e","t">>, <<"f","o","r","m">>, <<"o","p","t","i","o","n">>,
     <<"t","e","x","t","a","r","e","a">>}

SCRIPT_SUPPORTING_ELEMENTS ==
    {<<"s","c","r","i","p","t">>, <<"t","e","m","p","l","a","t","e">>}

HEADING_ELEMENTS ==
    {<<"h","1">>, <<"h","2">>, <<"h","3">>, <<"h","4">>, <<"h","5">>, <<"h","6">>}

PHRASING_CONTENT == BASIC_INLINE \cup MEDIA_ELEMENTS \cup {<<"t","i","m","e">>, <<"t","e","m","p","l","a","t","e">>}

HEADING_CONTENT == PHRASING_CONTENT \cup HEADING_ELEMENTS

SECTIONING_CONTENT ==
    {<<"a","r","t","i","c","l","e">>, <<"a","s","i","d","e">>, <<"n","a","v">>,
     <<"s","e","c","t","i","o","n">>}

FLOW_EXTRA ==
    {<<"a","d","d","r","e","s","s">>, <<"a","r","t","i","c","l","e">>, <<"a","s","i","d","e">>,
     <<"b","l","o","c","k","q","u","o","t","e">>, <<"c","a","p","t","i","o","n">>,
     <<"d","e","t","a","i","l","s">>, <<"d","i","a","l","o","g">>, <<"d","i","v">>, <<"d","l">>,
     <<"d","t">>, <<"f","i","e","l","d","s","e","t">>, <<"f","i","g","u","r","e">>,
     <<"f","o","o","t","e","r">>, <<"h","1">>, <<"h","2">>, <<"h","3">>, <<"h","4">>, <<"h","5">>,
     <<"h","6">>, <<"h","e","a","d","e","r">>, <<"h","g","r","o","u","p">>, <<"h","r">>,
     <<"m","a","i","n">>, <<"m","a","t","h">>, <<"m","e","n","u">>, <<"n","a","v">>, <<"o","l">>,
     <<"p">>, <<"p","r","e">>, <<"p","r","o","g","r","e","s","s">>,
     <<"s","e","c","t","i","o","n">>, <<"t","a","b","l","e">>, <<"t","e","m","p","l","a","t","e">>,
     <<"t","i","m","e">>, <<"u","l">>}

FLOW_CONTENT == BASIC_INLINE \cup MEDIA_ELEMENTS \cup FORM_ELEMENTS \cup FLOW_EXTRA

TEXT_ALLOWED_ELEMENTS ==
    {<<"a">>, <<"a","b","b","r">>, <<"a","d","d","r","e","s","s">>,
     <<"a","r","t","i","c","l","e">>, <<"a","s","i","d","e">>, <<"b">>, <<"b","d","i">>,
     <<"b","d","o">>, <<"b","l","o","c","k","q","u","o","t","e">>, <<"b","u","t","t","o","n">>,
     <<"c","a","p","t","i","o","n">>, <<"c","i","t","e">>, <<"c","o","d","e">>,
     <<"d","a","t","a">>, <<"d","a","t","a","l","i","s","t">>, <<"d","d">>, <<"d","e","l">>,
     <<"d","e","t","a","i","l","s">>, <<"d","f","n">>, <<"d","i","v">>, <<"d","l">>, <<"d","t">>,
     <<"e","m">>, <<"f","i","e","l","d","s","e","t">>, <<"f","i","g","c","a","p","t","i","o","n">>,
     <<"f","i","g","u","r","e">>, <<"f","o","o","t","e","r">>, <<"f","o","r","m">>, <<"h","1">>,
     <<"h","2">>, <<"h","3">>, <<"h","4">>, <<"h","5">>, <<"h","6">>, <<"h","e","a","d","e","r">>,
     <<"h","g","r","o","u","p">>, <<"i">>, <<"i","n","s">>, <<"k","b","d">>,
     <<"l","a","b","e","l">>, <<"l","e","g","e","n","d">>, <<"l","i">>, <<"m","a","i","n">>,
     <<"m","a","r","k">>, <<"m","e","n","u">>, <<"m","e","t","e","r">>, <<"n","a","v">>,
     <<"n","o","s","c","r","i","p","t">>, <<"o","l">>, <<"o","p","t","i","o","n">>,
     <<"o","u","t","p","u","t">>, <<"p">>, <<"p","r","e">>, <<"p","r","o","g","r","e","s","s">>,
     <<"q">>, <<"r","b">>, <<"r","p">>, <<"r","t">>, <<"r","t","c">>, <<"r","u","b","y">>, <<"s">>,
     <<"s","a","m","p">>, <<"s","e","c","t","i","o","n">>, <<"s","e","l","e","c","t">>,
     <<"s","m","a","l","l">>, <<"s","p","a","n">>, <<"s","t","r","o","n","g">>, <<"s","u","b">>,
     <<"s","u","m","m","a","r","y">>, <<"s","u","p">>, <<"t","a","b","l","e">>,
     <<"t","b","o","d","y">>, <<"t","d">>, <<"t","e","x","t","a","r","e","a">>,
     <<"t","f","o","o","t">>, <<"t","h">>, <<"t","h","e","a","d">>, <<"t","i","m","e">>,
     <<"t","r">>, <<"u">>, <<"u","l">>, <<"v","a","r">>}

CONTENT_MODEL_KEYS ==
    {<<"a","b","b","r">>, <<"a","d","d","r","e","s","s">>, <<"a","r","e","a">>,
     <<"a","r","t","i","c","l","e">>, <<"a","s","i","d","e">>, <<"b">>, <<"b","d","i">>,
     <<"b","d","o">>, <<"b","l","o","c","k","q","u","o","t","e">>, <<"b","o","d","y">>,
     <<"b","r">>, <<"b","u","t","t","o","n">>, <<"c","a","n","v","a","s">>,
     <<"c","a","p","t","i","o","n">>, <<"c","i","t","e">>, <<"c","o","d","e">>, <<"c","o","l">>,
     <<"c","o","l","g","r","o","u","p">>, <<"d","a","t","a">>, <<"d","a","t","a","l","i","s","t">>,
     <<"d","d">>, <<"d","e","t","a","i","l","s">>, <<"d","f","n">>, <<"d","i","a","l","o","g">>,
     <<"d","i","v">>, <<"d","l">>, <<"d","t">>, <<"e","m">>, <<"e","m","b","e","d">>,
     <<"f","i","e","l","d","s","e","t">>, <<"f","i","g","c","a","p","t","i","o","n">>,
     <<"f","i","g","u","r","e">>, <<"f","o","o","t","e","r">>, <<"f","o","r","m">>, <<"h","1">>,
     <<"h","2">>, <<"h","3">>, <<"h","4">>, <<"h","5">>, <<"h","6">>, <<"h","e","a","d","e","r">>,
     <<"h","g","r","o","u","p">>, <<"h","r">>, <<"i">>, <<"i","f","r","a","m","e">>,
     <<"i","m","g">>, <<"i","n","p","u","t">>, <<"k","b","d">>, <<"l","a","b","e","l">>,
     <<"l","e","g","e","n","d">>, <<"l","i">>, <<"l","i","n","k">>, <<"m","a","i","n">>,
     <<"m","a","r","k">>, <<"m","e","n","u">>, <<"m","e","t","a">>, <<"m","e","t","e","r">>,
     <<"n","a","v">>, <<"o","l">>, <<"o","p","t","g","r","o","u","p">>,
     <<"o","p","t","i","o","n">>, <<"o","u","t","p","u","t">>, <<"p">>,
     <<"p","i","c","t","u","r","e">>, <<"p","r","e">>, <<"p","r","o","g","r","e","s","s">>,
     <<"q">>, <<"r","p">>, <<"r","t">>, <<"r","u","b","y">>, <<"s">>, <<"s","a","m","p">>,
     <<"s","c","r","i","p","t">>, <<"s","e","a","r","c","h">>, <<"s","e","c","t","i","o","n">>,
     <<"s","e","l","e","c","t">>, <<"s","m","a","l","l">>, <<"s","o","u","r","c","e">>,
     <<"s","p","a","n">>, <<"s","t","r","o","n","g">>, <<"s","t","y","l","e">>, <<"s","u","b">>,
     <<"s","u","m","m","a","r","y">>, <<"s","u","p">>, <<"t","a","b","l","e">>,
     <<"t","b","o","d","y">>, <<"t","d">>, <<"t","e","x","t","a","r","e","a">>,
     <<"t","f","o","o","t">>, <<"t","h">>, <<"t","h","e","a","d">>, <<"t","i","m","e">>,
     <<"t","i","t","l","e">>, <<"t","r">>, <<"t","r","a","c","k">>, <<"u">>, <<"u","l">>,
     <<"v","a","r">>, <<"w","b","r">>}

ALLOWED_CONTENT_MODEL(name) ==
    CASE name = <<"a","b","b","r">> -> PHRASING_CONTENT
      [] name = <<"a","d","d","r","e","s","s">> -> (((FLOW_CONTENT \ HEADING_CONTENT) \ SECTIONING_CONTENT) \ {<<"a","d","d","r","e","s","s">>, <<"h","e","a","d","e","r">>, <<"f","o","o","t","e","r">>})
      [] name = <<"a","r","e","a">> -> {}
      [] name = <<"a","r","t","i","c","l","e">> -> FLOW_CONTENT
      [] name = <<"a","s","i","d","e">> -> FLOW_CONTENT
      [] name = <<"b">> -> PHRASING_CONTENT
      [] name = <<"b","d","i">> -> PHRASING_CONTENT
      [] name = <<"b","d","o">> -> PHRASING_CONTENT
      [] name = <<"b","l","o","c","k","q","u","o","t","e">> -> FLOW_CONTENT
      [] name = <<"b","o","d","y">> -> FLOW_CONTENT
      [] name = <<"b","r">> -> {}
      [] name = <<"b","u","t","t","o","n">> -> PHRASING_CONTENT
      [] name = <<"c","a","n","v","a","s">> -> {}
      [] name = <<"c","a","p","t","i","o","n">> -> (FLOW_CONTENT \ {<<"t","a","b","l","e">>})
      [] name = <<"c","i","t","e">> -> PHRASING_CONTENT
      [] name = <<"c","o","d","e">> -> PHRASING_CONTENT
      [] name = <<"c","o","l">> -> {}
      [] name = <<"c","o","l","g","r","o","u","p">> -> {<<"c","o","l">>, <<"t","e","m","p","l","a","t","e">>}
      [] name = <<"d","a","t","a">> -> PHRASING_CONTENT
      [] name = <<"d","a","t","a","l","i","s","t">> -> {<<"o","p","t","i","o","n">>} \cup SCRIPT_SUPPORTING_ELEMENTS \cup PHRASING_CONTENT
      [] name = <<"d","d">> -> FLOW_CONTENT
      [] name = <<"d","e","t","a","i","l","s">> -> (FLOW_CONTENT \ {<<"s","u","m","m","a","r","y">>})
      [] name = <<"d","f","n">> -> (PHRASING_CONTENT \ {<<"d","f","n">>})
      [] name = <<"d","i","a","l","o","g">> -> FLOW_CONTENT
      [] name = <<"d","i","v">> -> FLOW_CONTENT \cup SCRIPT_SUPPORTING_ELEMENTS \cup {<<"d","t">>, <<"d","d">>}
      [] name = <<"d","l">> -> {<<"d","t">>, <<"d","d">>, <<"d","i","v">>} \cup SCRIPT_SUPPORTING_ELEMENTS
      [] name = <<"d","t">> -> (((FLOW_CONTENT \ {<<"h","e","a","d","e","r">>, <<"f","o","o","t","e","r">>}) \ SECTIONING_CONTENT) \ HEADING_CONTENT)
      [] name = <<"e","m">> -> PHRASING_CONTENT
      [] name = <<"e","m","b","e","d">> -> {}
      [] name = <<"f","i","e","l","d","s","e","t">> -> {<<"l","e","g","e","n","d">>} \cup FLOW_CONTENT
      [] name = <<"f","i","g","c","a","p","t","i","o","n">> -> FLOW_CONTENT
      [] name = <<"f","i","g","u","r","e">> -> {<<"f","i","g","c","a","p","t","i","o","n">>} \cup FLOW_CONTENT
      [] name = <<"f","o","o","t","e","r">> -> (FLOW_CONTENT \ {<<"h","e","a","d","e","r">>, <<"f","o","o","t","e","r">>})
      [] name = <<"f","o","r","m">> -> (FLOW_CONTENT \ {<<"f","o","r","m">>})
      [] name = <<"h","1">> -> PHRASING_CONTENT
      [] name = <<"h","2">> -> PHRASING_CONTENT
      [] name = <<"h","3">> -> PHRASING_CONTENT
      [] name = <<"h","4">> -> PHRASING_CONTENT
      [] name = <<"h","5">> -> PHRASING_CONTENT
      [] name = <<"h","6">> -> PHRASING_CONTENT
      [] name = <<"h","e","a","d","e","r">> -> (FLOW_CONTENT \ {<<"h","e","a","d","e","r">>, <<"f","o","o","t","e","r">>})
      [] name = <<"h","g","r","o","u","p">> -> HEADING_ELEMENTS \cup {<<"p">>}
      [] name = <<"h","r">> -> {}
      [] name = <<"i">> -> PHRASING_CONTENT
      [] name = <<"i","f","r","a","m","e">> -> {}
      [] name = <<"i","m","g">> -> {}
      [] name = <<"i","n","p","u","t">> -> {}
      [] name = <<"k","b","d">> -> PHRASING_CONTENT
      [] name = <<"l","a","b","e","l">> -> (PHRASING_CONTENT \ {<<"l","a","b","e","l">>})
      [] name = <<"l","e","g","e","n","d">> -> PHRASING_CONTENT \cup HEADING_CONTENT
      [] name = <<"l","i">> -> FLOW_CONTENT
      [] name = <<"l","i","n","k">> -> {}
      [] name = <<"m","a","i","n">> -> FLOW_CONTENT
      [] name = <<"m","a","r","k">> -> PHRASING_CONTENT
      [] name = <<"m","e","n","u">> -> {<<"l","i">>} \cup SCRIPT_SUPPORTING_ELEMENTS
      [] name = <<"m","e","t","a">> -> {}
      [] name = <<"m","e","t","e","r">> -> (PHRASING_CONTENT \ {<<"m","e","t","e","r">>})
      [] name = <<"n","a","v">> -> FLOW_CONTENT
      [] name = <<"o","l">> -> {<<"l","i">>} \cup SCRIPT_SUPPORTING_ELEMENTS
      [] name = <<"o","p","t","g","r","o","u","p">> -> {<<"o","p","t","i","o","n">>} \cup SCRIPT_SUPPORTING_ELEMENTS
      [] name = <<"o","p","t","i","o","n">> -> {}
      [] name = <<"o","u","t","p","u","t">> -> PHRASING_CONTENT
      [] name = <<"p">> -> PHRASING_CONTENT
      [] name = <<"p","i","c","t","u","r","e">> -> {<<"s","o","u","r","c","e">>, <<"i","m","g">>}
      [] name = <<"p","r","e">> -> PHRASING_CONTENT
      [] name = <<"p","r","o","g","r","e","s","s">> -> (PHRASING_CONTENT \ {<<"p","r","o","g","r","e","s","s">>})
      [] name = <<"q">> -> PHRASING_CONTENT
      [] name = <<"r","p">> -> {}
      [] name = <<"r","t">> -> PHRASING_CONTENT
      [] name = <<"r","u","b","y">> -> PHRASING_CONTENT \cup {<<"r","t">>, <<"r","p">>}
      [] name = <<"s">> -> PHRASING_CONTENT
      [] name = <<"s","a","m","p">> -> PHRASING_CONTENT
      [] name = <<"s","c","r","i","p","t">> -> {}
      [] name = <<"s","e","a","r","c","h">> -> FLOW_CONTENT
      [] name = <<"s","e","c","t","i","o","n">> -> FLOW_CONTENT
      [] name = <<"s","e","l","e","c","t">> -> {<<"o","p","t","i","o","n">>, <<"o","p","t","g","r","o","u","p">>, <<"h","r">>}
      [] name = <<"s","m","a","l","l">> -> PHRASING_CONTENT
      [] name = <<"s","o","u","r","c","e">> -> {}
      [] name = <<"s","p","a","n">> -> PHRASING_CONTENT
      [] name = <<"s","t","r","o","n","g">> -> PHRASING_CONTENT
      [] name = <<"s","t","y","l","e">> -> {}
      [] name = <<"s","u","b">> -> PHRASING_CONTENT
      [] name = <<"s","u","m","m","a","r","y">> -> PHRASING_CONTENT \cup HEADING_CONTENT
      [] name = <<"s","u","p">> -> PHRASING_CONTENT
      [] name = <<"t","a","b","l","e">> -> {<<"t","b","o","d","y">>, <<"t","h","e","a","d">>, <<"t","f","o","o","t">>, <<"t","r">>, <<"c","a","p","t","i","o","n">>, <<"c","o","l","g","r","o","u","p">>} \cup SCRIPT_SUPPORTING_ELEMENTS
      [] name = <<"t","b","o","d","y">> -> {<<"t","r">>}
      [] name = <<"t","d">> -> FLOW_CONTENT
      [] name = <<"t","e","x","t","a","r","e","a">> -> {}
      [] name = <<"t","f","o","o","t">> -> {<<"t","r">>}
      [] name = <<"t","h">> -> (((FLOW_CONTENT \ {<<"h","e","a","d","e","r">>, <<"f","o","o","t","e","r">>}) \ SECTIONING_CONTENT) \ HEADING_CONTENT)
      [] name = <<"t","h","e","a","d">> -> {<<"t","r">>}
      [] name = <<"t","i","m","e">> -> PHRASING_CONTENT
      [] name = <<"t","i","t","l","e">> -> {}
      [] name = <<"t","r">> -> {<<"t","h">>, <<"t","d">>}
      [] name = <<"t","r","a","c","k">> -> {}
      [] name = <<"u">> -> PHRASING_CONTENT
      [] name = <<"u","l">> -> {<<"l","i">>} \cup SCRIPT_SUPPORTING_ELEMENTS
      [] name = <<"v","a","r">> -> PHRASING_CONTENT
      [] name = <<"w","b","r">> -> {}

ROOT_KEY == <<"_","_","r","o","o","t","_","_">>

DOCTYPE_KEY == <<"_","_","d","o","c","t","y","p","e","_","_">>

COMMENT_KEY == <<"_","_","c","o","m","m","e","n","t","_","_">>

TEXT_KEY == <<"_","_","t","e","x","t","_","_">>

DOCTYPE == <<"<","!","D","O","C","T","Y","P","E"," ","h","t","m","l",">">>

\* The Python object None where a str is expected (a regex group that did not take part).
NoneType == <<"NoneType">>

\* End of the longest run of \w characters (or of [\w-] when hyphen) that starts at i.
RECURSIVE run_end(_, _, _)
run_end(s, i, hyphen) ==
    IF i <= Len(s) /\ (isword(s[i]) \/ (hyphen /\ s[i] = "-")) THEN run_end(s, i + 1, hyphen) ELSE i

\* Position of the first character c at or after i, or 0.
RECURSIVE find_char(_, _, _)
find_char(s, i, c) == IF i > Len(s) THEN 0 ELSE IF s[i] = c THEN i ELSE find_char(s, i + 1, c)

\* PARSE_TAG_PATTERN matched at position i: <(/?)(\w+) | ([\w-]+)=('[^']*'|"[^"]*"|\w+)
\* end = 0 when there is no match at i, otherwise the position after the match.
match_at(s, i) ==
    LET nomatch == [end |-> 0, g1 |-> NoneType, g2 |-> NoneType, g3 |-> NoneType, g4 |-> NoneType]
        slash == i + 1 <= Len(s) /\ s[i + 1] = "/"
        n0 == IF slash THEN i + 2 ELSE i + 1
        n1 == run_end(s, n0, FALSE)
        k1 == run_end(s, i, TRUE)
        v == k1 + 1
        q == IF v <= Len(s) /\ s[v] \in {"'", "\""} THEN find_char(s, v + 1, s[v]) ELSE 0
        w == run_end(s, v, FALSE)
        vend == IF v > Len(s) THEN 0
                ELSE IF s[v] \in {"'", "\""} THEN (IF q = 0 THEN 0 ELSE q + 1)
                ELSE IF w > v THEN w ELSE 0
    IN  IF s[i] = "<"
        THEN IF n1 > n0
             THEN [end |-> n1, g1 |-> IF slash THEN <<"/">> ELSE <<>>, g2 |-> SubSeq(s, n0, n1 - 1), g3 |-> NoneType, g4 |-> NoneType]
             ELSE nomatch
        ELSE IF k1 > i /\ k1 <= Len(s) /\ s[k1] = "=" /\ vend # 0
             THEN [end |-> vend, g1 |-> NoneType, g2 |-> NoneType, g3 |-> SubSeq(s, i, k1 - 1), g4 |-> SubSeq(s, v, vend - 1)]
             ELSE nomatch

\* PARSE_TAG_PATTERN.finditer(tag): the non-overlapping matches, left to right
RECURSIVE finditer(_, _)
finditer(s, i) ==
    IF i > Len(s) THEN <<>>
    ELSE LET m == match_at(s, i)
         IN  IF m.end # 0 THEN <<m>> \o finditer(s, m.end) ELSE finditer(s, i + 1)

\* A dict built by a comprehension: a repeated key keeps its first place and takes the last value.
RECURSIVE dict_of(_, _)
dict_of(d, ms) ==
    IF Len(ms) = 0 THEN d
    ELSE LET k == ms[1].g3
             at == {j \in 1..Len(d) : d[j].k = k}
         IN  dict_of(IF at = {} THEN Append(d, [k |-> k, v |-> ms[1].g4])
                     ELSE [j \in 1..Len(d) |-> IF j \in at THEN [k |-> k, v |-> ms[1].g4] ELSE d[j]], Tail(ms))

\* NodeCreator._parse_tag on a str piece
_parse_tag(tag) ==
    LET matches == finditer(tag, 1)
    IN  IF startswith(tag, <<"<", "!">>) THEN [tag_name |-> COMMENT_KEY, is_closing |-> FALSE, attributes |-> <<>>]
        ELSE IF Len(matches) = 0 THEN [tag_name |-> TEXT_KEY, is_closing |-> FALSE, attributes |-> <<>>]
        ELSE [tag_name |-> matches[1].g2, is_closing |-> matches[1].g1 \notin {NoneType, <<>>}, attributes |-> dict_of(<<>>, Tail(matches))]

\* HTMLNode.__init__ and the subclasses RootNode, DoctypeNode, CommentNode
\* (_parent is never assigned by the code and stays None).
HTMLNode(name, attrs) ==
    [_name |-> name, _attributes |-> attrs, _content |-> <<>>, _children |-> <<>>, _endtag |-> name \notin omit_endtag, _closed |-> FALSE]

\* Mutant of RootNode: one root object kept by the creator across create()
\* calls, still closed from the pass before.
RootNode_kept == [HTMLNode(ROOT_KEY, <<>>) EXCEPT !._endtag = FALSE, !._closed = (nc.phase = "done")]

RootNode == [HTMLNode(ROOT_KEY, <<>>) EXCEPT !._endtag = FALSE]

DoctypeNode == [HTMLNode(DOCTYPE_KEY, <<>>) EXCEPT !._endtag = FALSE]

CommentNode == [HTMLNode(COMMENT_KEY, <<>>) EXCEPT !._endtag = FALSE]

\* HTMLNode.can_contain, overridden by RootNode.can_contain
can_contain(node, tag_name) ==
    IF node._name = ROOT_KEY THEN TRUE
    ELSE IF node._name \notin CONTENT_MODEL_KEYS THEN TRUE
    ELSE IF ALLOWED_CONTENT_MODEL(node._name) = {} THEN FALSE
    ELSE tag_name \in ALLOWED_CONTENT_MODEL(node._name)

is_allowed_text_content(node) == node._name \in TEXT_ALLOWED_ELEMENTS

\* The reconstructor's working state t: t.nodes holds every node object made
\* (node 1 is the root), t.stack the open-node stack, t.err a raised exception.
Fail(t, e) == IF t.err = OK THEN [t EXCEPT !.err = e] ELSE t

add_child(t, node, child) ==
    IF t.nodes[node]._closed THEN Fail(t, "ValueError")
    ELSE [t EXCEPT !.nodes[node]._children = Append(@, child)]

add_text_content(t, node, text) ==
    IF t.nodes[node]._closed THEN Fail(t, "ValueError")
    ELSE [t EXCEPT !.nodes[node]._content = @ \o text]

\* HTMLNode.close: close the unclosed children, then the node
RECURSIVE close(_, _)
RECURSIVE close_each(_, _)
close_each(nodes, children) ==
    IF Len(children) = 0 THEN nodes
    ELSE close_each(IF nodes[children[1]]._closed THEN nodes ELSE close(nodes, children[1]), Tail(children))

\* Mutant of close: the flag of the node is set, its children are left alone.
close_shallow(nodes, node) == [nodes EXCEPT ![node]._closed = TRUE]

close(nodes, node) == [close_each(nodes, nodes[node]._children) EXCEPT ![node]._closed = TRUE]

_close_node(t, node) ==
    LET t1 == [t EXCEPT !.nodes = close(t.nodes, node)]
    IN  IF Len(t.stack) = 0 THEN Fail(t1, "IndexError")
        ELSE [t1 EXCEPT !.stack = SubSeq(t.stack, 1, Len(t.stack) - 1)]

_handle_doctype(t) ==
    IF Len(t.stack) > 1 THEN Fail(t, "ValueError")
    ELSE IF Len(t.stack) = 0 THEN Fail(t, "IndexError")
    ELSE add_child([t EXCEPT !.nodes = Append(@, DoctypeNode)], t.stack[1], Len(t.nodes) + 1)

\* The last position of a "for node in reversed(stack)" scan: the greatest of S, or 0.
topmost(S) == IF S = {} THEN 0 ELSE CHOOSE i \in S : \A j \in S : j <= i

_handle_comment(t, text) ==
    LET at == topmost({i \in 1..Len(t.stack) : ~t.nodes[t.stack[i]]._closed})
        t1 == [t EXCEPT !.nodes = Append(@, [CommentNode EXCEPT !._content = text])]
    IN  IF at = 0 THEN t1 ELSE add_child(t1, t.stack[at], Len(t.nodes) + 1)

\* Mutant of _handle_text: the text goes to the top of the stack, whatever its
\* name.
handle_text_top(t, text) ==
    IF Len(t.stack) = 0 THEN t ELSE add_text_content(t, t.stack[Len(t.stack)], text)

_handle_text(t, text) ==
    LET at == topmost({i \in 1..Len(t.stack) : is_allowed_text_content(t.nodes[t.stack[i]])})
    IN  IF at = 0 THEN t ELSE add_text_content(t, t.stack[at], text)

\* The loop of _handle_new_node: reversed(stack) follows the pops of _close_node.
RECURSIVE new_node_walk(_, _)
new_node_walk(t, new_node) ==
    IF Len(t.stack) = 0 THEN t
    ELSE LET node == t.stack[Len(t.stack)]
         IN  IF can_contain(t.nodes[node], t.nodes[new_node]._name) THEN add_child(t, node, new_node)
             ELSE new_node_walk(_close_node(t, node), new_node)

_handle_new_node(t, tag_name, attrs) ==
    LET new_node == Len(t.nodes) + 1
        t1 == new_node_walk([t EXCEPT !.nodes = Append(@, HTMLNode(tag_name, attrs))], new_node)
    IN  IF t1.err # OK THEN t1 ELSE [t1 EXCEPT !.stack = Append(@, new_node)]

RECURSIVE _close_node_by_name(_, _)
_close_node_by_name(t, name) ==
    IF Len(t.stack) = 0 THEN t
    ELSE LET node == t.stack[Len(t.stack)]
             t1 == _close_node(t, node)
         IN  IF t.nodes[node]._name = name THEN t1 ELSE _close_node_by_name(t1, name)

\* The list NodeCreator.create iterates: the Builder's _allpieces with each
\* Builder piece replaced by that Builder's _allpieces (one level).
RECURSIVE flatten(_, _)
flatten(h, frags) ==
    IF Len(frags) = 0 THEN <<>>
    ELSE (IF isinstance_Builder(frags[1]) THEN _allpieces(h, frags[1].b) ELSE <<frags[1]>>) \o flatten(h, Tail(frags))

\* ------------------------------------------------------------------- inputs
div == <<"d","i","v">>

span == <<"s","p","a","n">>

hello == <<"h","e","l","l","o">>

\* Attribute names that reach __getattr__ as tag names: div and span need an end
\* tag, p (optional end tag) and br_ (mangled to the void br) are in omit_endtag.
TagNames == {div, span, <<"p">>, <<"b","r","_">>}

None == [t |-> "None", s |-> <<>>, b |-> 0]

Text(s) == [t |-> "str", s |-> s, b |-> 0]

HTML(s) == [t |-> "HTML", s |-> s, b |-> 0]

BuilderArg(id) == [t |-> "Builder", s |-> <<>>, b |-> id]

NoAttrs == <<>>

id_x == <<[k |-> <<"i","d">>, v |-> [t |-> "str", s |-> <<"x">>]]>>

\* ------------------------------------------------------------------ actions
\* Every call starts with no exception pending.
Begin == [H EXCEPT !.err = OK, !.ret = 0]

NoPrev == [valid |-> FALSE, phase |-> "idle", nodes |-> <<>>, err |-> OK]

\* No create() call made yet.
Idle == [phase |-> "idle", builder |-> 0, pieces |-> <<>>, i |-> 0, stack |-> <<>>, nodes |-> <<>>, err |-> OK, run |-> 0, at |-> 0, prev |-> NoPrev]

NoArgs == [name |-> <<>>, content |-> <<>>, attrs |-> <<>>]

\* One Builder call made by the user: f names the method, h is the heap it leaves.
Call(f, self, name, content, attrs, h) ==
    /\ nc.phase # "run"
    /\ h.err # "HeapBound"
    /\ H' = h
    /\ op' = [f |-> f, self |-> self, name |-> name, content |-> content, attrs |-> attrs]
    /\ nops' = nops + 1
    /\ UNCHANGED <<out, nc, in>>

Live == 1..H.n

OpenTag(self, name) == Call("tag", self, name, <<>>, <<>>, __getattr__(Begin, self, name))

SlotInsert(self, name) == Call("slot_insert", self, name, <<>>, <<>>, __getattr__(Begin, self, name \o <<"_">>))

SlotRead(self, name) == Call("slot_read", self, name, <<>>, <<>>, __getattr__(Begin, self, name))

SlotAssign(self, name, value) == Call("setattr", self, name, <<value>>, <<>>, __setattr__(Begin, self, name, value))

CallBuilder(self, content, attrs) == Call("call", self, <<>>, content, attrs, __call__(Begin, self, content, attrs))

Append_(self, content) == Call("_", self, <<>>, content, <<>>, append_content(Begin, self, content))

Enter(self) == Call("enter", self, <<>>, <<>>, <<>>, __enter__(Begin, self))

Exit(self) == Call("exit", self, <<>>, <<>>, <<>>, __exit__(Begin, self))

Comment(self, text) == Call("_comment", self, <<>>, <<Text(text)>>, <<>>, _comment(Begin, self, text))

Script(self, code, attrs) == Call("_script", self, <<>>, <<Text(code)>>, attrs, _script(Begin, self, code, attrs))

Style(self, code, attrs) == Call("_style", self, <<>>, <<Text(code)>>, attrs, _style(Begin, self, code, attrs))

\* str(builder): the render is returned in out, the Builder is only read.
Render(self) ==
    /\ op.f # "str"
    /\ nc.phase # "run"
    /\ H' = (IF Cyclic(H, self) THEN Raise(Begin, "RecursionError") ELSE Begin)
    /\ out' = (IF Cyclic(H, self) THEN <<>> ELSE str(H, self))
    /\ op' = [f |-> "str", self |-> self, name |-> <<>>, content |-> <<>>, attrs |-> <<>>]
    /\ UNCHANGED <<nc, nops, in>>

\* HTMLSyntaxTree.create(builder) enters NodeCreator.create: the root, the stack
\* and the flattened piece list.  prev keeps the outcome of the create() before
\* it when that one ran on the same Builder with no Builder call since.
Create(self) ==
    /\ nc.phase # "run"
    /\ nc.run < MaxCreate
    /\ nc' = [phase |-> "run", builder |-> self, pieces |-> flatten(H, _allpieces(H, self)), i |-> 1,
              stack |-> <<1>>, nodes |-> <<RootNode>>, err |-> OK, run |-> nc.run + 1, at |-> nops,
              prev |-> IF nc.phase \in {"done", "error"} /\ nc.builder = self /\ nc.at = nops
                       THEN [valid |-> TRUE, phase |-> nc.phase, nodes |-> nc.nodes, err |-> nc.err]
                       ELSE NoPrev]
    /\ H' = Begin
    /\ op' = [f |-> "create", self |-> self, name |-> <<>>, content |-> <<>>, attrs |-> <<>>]
    /\ UNCHANGED <<out, nops, in>>

\* The piece the loop of NodeCreator.create handles next.
AtPiece == nc.phase = "run" /\ nc.i <= Len(nc.pieces)

piece == nc.pieces[nc.i]

parsed == _parse_tag(piece.s)

\* One iteration of the loop ends: the next piece, or the exception leaves create().
Iterate(f, t) ==
    /\ nc' = [t EXCEPT !.i = @ + 1, !.phase = IF t.err # OK THEN "error" ELSE "run"]
    /\ op' = [f |-> f, self |-> nc.builder, name |-> <<>>, content |-> <<>>, attrs |-> <<>>]
    /\ UNCHANGED <<out, nops, in>>

\* A Builder left in the flattened list (a placeholder inside a placeholder):
\* _parse_tag calls tag.startswith("<!"), which Builder.__getattr__ takes as the
\* tag "startswith" called with the content "<!"; the Builder returned is truthy,
\* so the piece counts as a comment and piece[4:-3] raises TypeError.
ParseBuilderPiece ==
    /\ AtPiece /\ isinstance_Builder(piece)
    /\ H' = [__call__(__getattr__(Begin, piece.b, <<"s","t","a","r","t","s","w","i","t","h">>), piece.b, <<Text(<<"<", "!">>)>>, <<>>) EXCEPT !.err = "TypeError", !.ret = 0]
    /\ Iterate("parse_builder", Fail(nc, "TypeError"))

ParseDoctype ==
    /\ AtPiece /\ ~isinstance_Builder(piece) /\ piece.s = DOCTYPE
    /\ H' = Begin
    /\ Iterate("parse_doctype", _handle_doctype(nc))

ParseComment ==
    /\ AtPiece /\ ~isinstance_Builder(piece) /\ piece.s # DOCTYPE
    /\ parsed.tag_name = COMMENT_KEY
    /\ H' = Begin
    /\ Iterate("parse_comment", _handle_comment(nc, SubSeq(piece.s, 5, Len(piece.s) - 3)))

ParseText ==
    /\ AtPiece /\ ~isinstance_Builder(piece) /\ piece.s # DOCTYPE
    /\ parsed.tag_name = TEXT_KEY
    /\ H' = Begin
    /\ Iterate("parse_text", _handle_text(nc, piece.s))

ParseClosingTag ==
    /\ AtPiece /\ ~isinstance_Builder(piece) /\ piece.s # DOCTYPE
    /\ parsed.tag_name \notin {COMMENT_KEY, TEXT_KEY}
    /\ parsed.is_closing
    /\ H' = Begin
    /\ Iterate("parse_close", _close_node_by_name(nc, parsed.tag_name))

ParseOpeningTag ==
    /\ AtPiece /\ ~isinstance_Builder(piece) /\ piece.s # DOCTYPE
    /\ parsed.tag_name \notin {COMMENT_KEY, TEXT_KEY}
    /\ ~parsed.is_closing
    /\ H' = Begin
    /\ Iterate("parse_open", _handle_new_node(nc, parsed.tag_name, parsed.attributes))

\* After the last piece: self._close_node(root, stack); return root
Finish ==
    /\ nc.phase = "run" /\ nc.i > Len(nc.pieces)
    /\ LET t == _close_node(nc, 1)
       IN  nc' = [t EXCEPT !.phase = IF t.err # OK THEN "error" ELSE "done"]
    /\ H' = Begin
    /\ op' = [f |-> "finish", self |-> nc.builder, name |-> <<>>, content |-> <<>>, attrs |-> <<>>]
    /\ UNCHANGED <<out, nops, in>>

\* Mutant of to_html: the pieces appended so far, without the pending end tag
\* and the scope stack.
to_html_pieces_only(h, builder) == join_str(h, h.b[builder]._pieces)

\* HTMLSyntaxTree.to_html(pretty=False) on the tree create() returned
to_html(h, builder) == str(h, builder)

ToHtml ==
    /\ nc.phase = "done"
    /\ op.f # "to_html"
    /\ H' = (IF Cyclic(H, nc.builder) THEN Raise(Begin, "RecursionError") ELSE Begin)
    /\ out' = (IF Cyclic(H, nc.builder) THEN <<>> ELSE to_html(H, nc.builder))
    /\ op' = [f |-> "to_html", self |-> nc.builder, name |-> <<>>, content |-> <<>>, attrs |-> <<>>]
    /\ UNCHANGED <<nc, nops, in>>

Reconstruct ==
    \/ ParseBuilderPiece
    \/ ParseDoctype
    \/ ParseComment
    \/ ParseText
    \/ ParseClosingTag
    \/ ParseOpeningTag
    \/ Finish

\* The state after construction: two empty snippet Builders, as E makes them,
\* and no create() call made.
Start ==
    /\ H = [b |-> [i \in 1..NB |-> Builder(IF i <= 2 THEN E_Builder ELSE <<>>)], n |-> 2, err |-> OK, ret |-> 0]
    /\ op = [f |-> "init", self |-> 0, name |-> <<>>, content |-> <<>>, attrs |-> <<>>]
    /\ out = <<>>
    /\ nc = Idle
    /\ nops = 0

Init == Start /\ in = <<>>

\* Tags, attributes, content, Builders as content, scopes, comments, inline
\* scripts and render on the two snippet Builders.
Next ==
    \/ nops < MaxOps /\ \E self \in {1, 2}, name \in TagNames : OpenTag(self, name)
    \/ nops < MaxOps /\ \E self \in {1, 2}, attrs \in {NoAttrs, id_x} : \E content \in {<<>>, <<Text(hello)>>, <<BuilderArg(3 - self)>>} : CallBuilder(self, content, attrs)
    \/ nops < MaxOps /\ \E self \in {1, 2} : \E content \in {<<Text(hello)>>, <<BuilderArg(3 - self)>>} : Append_(self, content)
    \/ nops < MaxOps /\ \E self \in {1, 2} : Enter(self)
    \/ nops < MaxOps /\ \E self \in {1, 2} : Exit(self)
    \/ nops < MaxOps /\ Comment(1, <<"x">>)
    \/ nops < MaxOps /\ Script(1, <<"x">>, NoAttrs)
    \/ \E self \in {1, 2} : Render(self)

Spec == Init /\ [][Next]_vars

\* ------------------------------------------------------------------ claims
\* The markup s read as tags: every end tag closes the innermost element still
\* open, elements of omit_endtag need no end tag, nothing stays open at the end.
RECURSIVE well_nested(_, _, _)
well_nested(s, i, open) ==
    IF i > Len(s) THEN open = <<>>
    ELSE IF s[i] # "<" THEN well_nested(s, i + 1, open)
    ELSE LET gt == find_char(s, i, ">")
             closing == i + 1 <= Len(s) /\ s[i + 1] = "/"
             n0 == IF closing THEN i + 2 ELSE i + 1
             name == SubSeq(s, n0, run_end(s, n0, TRUE) - 1)
         IN  IF gt = 0 THEN FALSE
             ELSE IF i + 1 <= Len(s) /\ s[i + 1] = "!" THEN well_nested(s, gt + 1, open)
             ELSE IF closing
                  THEN Len(open) > 0 /\ open[Len(open)] = name /\ well_nested(s, gt + 1, SubSeq(open, 1, Len(open) - 1))
             ELSE IF name \in omit_endtag THEN well_nested(s, gt + 1, open)
             ELSE well_nested(s, gt + 1, Append(open, name))

Balanced(s) == well_nested(s, 1, <<>>)

\* C1: after every sequence of Builder operations the render of each Builder is
\* balanced: each opened tag outside the omit-set has its end tag exactly once,
\* and end tags come in reverse order of opening.
C1_RenderBalanced == \A b \in {1, 2} : ~Cyclic(H, b) => Balanced(str(H, b))

\* ------------------------------------------------- the scope example of 4.1
\* with E.<outer>: E.<inner>(text)   (or E.<inner>._(text)), then str(E):
\* the names, the text and the way the text is added are drawn at the start.
a_lt_b == <<"a", "<", "b">>

ScopeInputs == [outer : {div, span}, inner : TagNames, text : {hello, a_lt_b, <<>>}, how : {"call", "_"}]

InitScopeExample == Start /\ in \in ScopeInputs

NextScopeExample ==
    \/ nops = 0 /\ OpenTag(1, in.outer)
    \/ nops = 1 /\ Enter(1)
    \/ nops = 2 /\ OpenTag(1, in.inner)
    \/ nops = 3 /\ in.how = "call" /\ CallBuilder(1, <<Text(in.text)>>, NoAttrs)
    \/ nops = 3 /\ in.how = "_" /\ Append_(1, <<Text(in.text)>>)
    \/ nops = 4 /\ Exit(1)
    \/ nops = 5 /\ Render(1)

SpecScopeExample == InitScopeExample /\ [][NextScopeExample]_vars

\* The example has run to its render.
ScopeExampleRendered == nops = 5 /\ op.f = "str" /\ H.err = OK

OpenMarkup(name) == <<"<">> \o name \o <<">">>

EndMarkup(name) == <<"<", "/">> \o name \o <<">">>

\* C2 as the spec states it: div > p > "hello", p not closed explicitly, renders
\* <div><p>hello</p></div>.
C2_ScopeExampleAsStated ==
    (ScopeExampleRendered /\ in.outer = div /\ in.inner = <<"p">> /\ in.text = hello) =>
        out = OpenMarkup(div) \o OpenMarkup(<<"p">>) \o hello \o EndMarkup(<<"p">>) \o EndMarkup(div)

\* C2 (amended): leaving the scope appends the inner tag's pending end tag, if
\* it has one, before the scope's end tag; an inner tag of the omit-set (p, br)
\* has none, so div > p > "hello" renders <div><p>hello</div>, and only an inner
\* tag outside the omit-set (span) gets its end tag before </div>.
C2_ScopeExample ==
    ScopeExampleRendered =>
        LET inner == mangle(in.inner)
        IN  /\ out = OpenMarkup(in.outer) \o OpenMarkup(inner) \o escape(in.text)
                     \o (IF inner \in omit_endtag THEN <<>> ELSE EndMarkup(inner)) \o EndMarkup(in.outer)
            /\ H.b[1]._endtag = <<>> /\ H.b[1]._stack = <<>>
            /\ H.b[1]._pieces[Len(H.b[1]._pieces)] = StrPiece(EndMarkup(in.outer))

\* div > p > "hello" was built with the scope left while p was the last tag
\* opened, and rendered.
C2_Witness ==
    /\ ScopeExampleRendered /\ in.outer = div /\ in.inner = <<"p">> /\ in.text = hello
    /\ out = OpenMarkup(div) \o OpenMarkup(<<"p">>) \o hello \o EndMarkup(div)

\* ------------------------------------------------------- template slots
\* A document Builder (1) with the slot A inserted, filled, read and assigned,
\* and a snippet Builder (2) built to be assigned as the slot's value.
MaxSlotOps == 5

A == <<"A">>

b_tag == <<"<", "b", ">">>

SlotValues == {Text(a_lt_b), HTML(b_tag), None, BuilderArg(2)}

NextSlots ==
    \/ nops < MaxSlotOps /\ SlotInsert(1, A)
    \/ nops < MaxSlotOps /\ SlotRead(1, A)
    \/ nops < MaxSlotOps /\ \E value \in SlotValues : SlotAssign(1, A, value)
    \/ nops < MaxSlotOps /\ \E self \in {1, 2} : OpenTag(self, div)
    \/ nops < MaxSlotOps /\ \E self \in {1, 2} : CallBuilder(self, <<Text(hello)>>, NoAttrs)
    \/ Render(1)

SpecSlots == Init /\ [][NextSlots]_vars

\* The positions of the pieces of Builder b that reference the Builder t.
InsertionPoints(h, b, t) == {i \in 1..Len(h.b[b]._pieces) : h.b[b]._pieces[i] = BuilderPiece(t)}

\* What the value renders as by itself: str(value) for a Builder, the raw
\* markup of an HTML value, the escaped text of a str, nothing for None.
ValueRender(h, value) ==
    CASE value.t = "Builder" -> str(h, value.b)
      [] value.t = "HTML" -> value.s
      [] value.t = "str" -> escape(value.s)
      [] OTHER -> <<>>

\* C3: a slot inserted at two or more points of a Builder is assigned a new
\* value: the assignment succeeds, the slot map and the insertion points keep
\* referencing the same Builder, and that Builder (so every insertion point)
\* renders the new value and nothing else.
C3_SlotPropagation ==
    [][(op'.f = "setattr" /\ templates_get(H, op'.self, op'.name) # 0
            /\ Cardinality(InsertionPoints(H, op'.self, templates_get(H, op'.self, op'.name))) >= 2) =>
        LET self == op'.self
            t == templates_get(H, self, op'.name)
        IN  /\ H'.err = OK
            /\ templates_get(H', self, op'.name) = t
            /\ H'.b[self]._pieces = H.b[self]._pieces
            /\ ~Cyclic(H', t)
            /\ str(H', t) = ValueRender(H, op'.content[1])]_vars

\* ------------------------------------------------------- content model
\* Elements nested by scopes on one Builder (span and p permit no div, p
\* permits no p), then reconstructed: the pieces are opening tags, end tags and
\* the empty pending end tag (a text piece).
MaxNestOps == 6

NextContentModel ==
    \/ nops < MaxNestOps /\ \E name \in {div, span, <<"p">>} : OpenTag(1, name)
    \/ nops < MaxNestOps /\ Enter(1)
    \/ nops < MaxNestOps /\ Exit(1)
    \/ Create(1)
    \/ ParseText
    \/ ParseClosingTag
    \/ ParseOpeningTag
    \/ Finish

SpecContentModel == Init /\ [][NextContentModel]_vars

IsElement(node) == node._name \notin {ROOT_KEY, DOCTYPE_KEY, COMMENT_KEY}

\* No node made so far has an element child that its content-model lookup forbids.
NoForbiddenPair ==
    \A p \in 1..Len(nc.nodes) : \A i \in 1..Len(nc.nodes[p]._children) :
        LET child == nc.nodes[nc.nodes[p]._children[i]]
        IN  (nc.nodes[p]._name # ROOT_KEY /\ IsElement(child)) => can_contain(nc.nodes[p], child._name)

\* The opening-tag step from nc to nc' found position k of the old stack: the
\* nodes above k do not permit the tag and are closed and popped, the node at k
\* permits it, gets the new node as its last child and the new node is pushed.
AttachedAt(k) ==
    LET S == nc.stack
        new == Len(nc.nodes) + 1
    IN  /\ can_contain(nc.nodes[S[k]], parsed.tag_name)
        /\ \A i \in (k + 1)..Len(S) : ~can_contain(nc.nodes[S[i]], parsed.tag_name) /\ nc'.nodes[S[i]]._closed
        /\ nc'.stack = SubSeq(S, 1, k) \o <<new>>
        /\ nc'.nodes[S[k]]._children = Append(nc.nodes[S[k]]._children, new)
        /\ nc'.nodes[new]._name = parsed.tag_name

\* C4: no tree holds an element under a non-root parent whose content model
\* forbids it; an opening tag that the top of the open-node stack does not
\* permit closes and pops nodes from the top until a node of the stack permits
\* it, and is attached there.
C4_ContentModel ==
    /\ [](nc.err = OK => NoForbiddenPair)
    /\ [][(op'.f = "parse_open" /\ nc'.err = OK /\ nc.stack # <<>>
              /\ ~can_contain(nc.nodes[nc.stack[Len(nc.stack)]], parsed.tag_name)) =>
            \E k \in 1..(Len(nc.stack) - 1) : AttachedAt(k)]_vars

\* ------------------------------------------------------- reconstruction
\* A document Builder (1) with tags, attributes, text, the doctype, a comment,
\* the slot A (Builder 3, once inserted) and the slot B inside it (d.A.B_),
\* reconstructed up to MaxCreate times and serialized in plain mode.
MaxParseOps == 3

NextParse ==
    \/ nops < MaxParseOps /\ \E name \in {div, <<"p">>} : OpenTag(1, name)
    \/ nops < MaxParseOps /\ \E attrs \in {NoAttrs, id_x} : CallBuilder(1, <<Text(hello)>>, attrs)
    \/ nops < MaxParseOps /\ CallBuilder(1, <<HTML(DOCTYPE)>>, NoAttrs)
    \/ nops < MaxParseOps /\ Comment(1, <<"x">>)
    \/ nops < MaxParseOps /\ SlotInsert(1, A)
    \/ nops < MaxParseOps /\ 3 \in Live /\ SlotInsert(3, <<"B">>)
    \/ Create(1)
    \/ Reconstruct
    \/ ToHtml

SpecParse == Init /\ [][NextParse]_vars

\* C5: when reconstruction of a Builder succeeded, the plain serialization of
\* the tree is the Builder's direct render, character for character.
C5_RoundTrip == (op.f = "to_html" /\ H.err = OK) => out = str(H, nc.builder)

\* to_html(pretty=False) was called on the tree of a Builder that holds a slot
\* piece, other pieces and a pending end tag, and whose tree has elements.
C5_Witness ==
    /\ op.f = "to_html" /\ H.err = OK /\ out # <<>>
    /\ LET b == H.b[nc.builder]
       IN  /\ b._endtag # <<>>
           /\ \E i \in 1..Len(b._pieces) : b._pieces[i].b # 0
    /\ \E n \in 1..Len(nc.nodes) : IsElement(nc.nodes[n])

\* C6: a second create() on the same Builder, with no Builder call since the
\* first, ends as the first did: the same tree, node for node (names,
\* attributes, text, children in order), or the same exception.
C6_Idempotent ==
    (nc.phase \in {"done", "error"} /\ nc.prev.valid) =>
        /\ nc.prev.phase = nc.phase
        /\ nc.prev.err = nc.err
        /\ nc.phase = "done" => nc.prev.nodes = nc.nodes

\* The second create() returned a tree with an element that has attributes, a
\* text and a comment or doctype node.
C6_Witness ==
    /\ nc.phase = "done" /\ nc.prev.valid /\ nc.run = 2
    /\ \E n \in 1..Len(nc.nodes) : IsElement(nc.nodes[n]) /\ nc.nodes[n]._content # <<>>
    /\ \E n \in 1..Len(nc.nodes) : nc.nodes[n]._name \in {COMMENT_KEY, DOCTYPE_KEY}

\* A piece that is one opening tag: "<", a name, maybe attributes, ">" and no
\* other "<" (a comment starts "<!", an end tag "</", an inline script or style
\* element holds its own end tag).
IsOpeningTag(s) ==
    /\ Len(s) >= 3
    /\ s[1] = "<" /\ isalnumChar(s[2]) /\ s[Len(s)] = ">"
    /\ \A i \in 2..Len(s) : s[i] # "<"

IsClosingTag(s) == Len(s) >= 4 /\ startswith(s, <<"<", "/">>) /\ s[Len(s)] = ">"

LastPiece(b) == b._pieces[Len(b._pieces)]

LastIsBuilder(b) == Len(b._pieces) > 0 /\ isinstance_Builder(LastPiece(b))

\* C7: attributes are accepted only when the last piece is an opening tag; after
\* a closing tag, text, a comment, an inline script/style element, raw markup or
\* no piece they are a usage error; when accepted they are merged into that
\* piece and no other piece changes.
C7_AttrsOnlyOnOpeningTag ==
    [][(op'.f = "call" /\ op'.attrs # <<>> /\ ~LastIsBuilder(H.b[op'.self])) =>
        LET b == H.b[op'.self]
            b2 == H'.b[op'.self]
            n == Len(b._pieces)
        IN  IF n > 0 /\ IsOpeningTag(LastPiece(b).s)
            THEN /\ Len(b2._pieces) >= n
                 /\ SubSeq(b2._pieces, 1, n - 1) = SubSeq(b._pieces, 1, n - 1)
                 /\ b2._pieces[n] = StrPiece(SubSeq(LastPiece(b).s, 1, Len(LastPiece(b).s) - 1) \o attributes(op'.attrs) \o <<">">>)
            ELSE H'.err # OK /\ H'.b = H.b]_vars

\* ------------------------------------------------------------------ render
\* One Builder with tags, nested scopes and the slot A (inserted, then filled
\* by the call that follows the insert), rendered at any moment.
MaxRenderOps == 7

NextRender ==
    \/ nops < MaxRenderOps /\ \E name \in {div, span} : OpenTag(1, name)
    \/ nops < MaxRenderOps /\ Enter(1)
    \/ nops < MaxRenderOps /\ Exit(1)
    \/ nops < MaxRenderOps /\ SlotInsert(1, A)
    \/ nops < MaxRenderOps /\ CallBuilder(1, <<Text(hello)>>, NoAttrs)
    \/ Render(1)

SpecRender == Init /\ [][NextRender]_vars

\* The saved end tags of a scope stack, the innermost (last pushed) first.
RECURSIVE InnermostFirst(_)
InnermostFirst(stack) ==
    IF stack = <<>> THEN <<>>
    ELSE stack[Len(stack)] \o InnermostFirst(SubSeq(stack, 1, Len(stack) - 1))

\* The text of the pieces ps in append order, a Builder piece standing for
\* that Builder's pieces, pending end tag and stack in turn.
RECURSIVE PiecesInOrder(_, _)
PiecesInOrder(h, ps) ==
    IF ps = <<>> THEN <<>>
    ELSE LET p == ps[1]
         IN  (IF p.b = 0 THEN p.s
              ELSE PiecesInOrder(h, h.b[p.b]._pieces) \o h.b[p.b]._endtag \o InnermostFirst(h.b[p.b]._stack))
             \o PiecesInOrder(h, Tail(ps))

\* C8: render returns the pieces in append order (a Builder piece replaced by
\* its own render), then the pending end tag, then the stack's end tags from
\* the innermost scope to the outermost, and leaves every Builder as it was.
C8_RenderOrder ==
    [][(op'.f = "str" /\ H'.err = OK) =>
        LET b == H.b[op'.self]
        IN  /\ out' = PiecesInOrder(H, b._pieces) \o b._endtag \o InnermostFirst(b._stack)
            /\ H'.b = H.b /\ H'.n = H.n]_vars

\* A render of a Builder that holds a filled slot Builder piece, a pending end
\* tag and two open scopes with different end tags.
C8_Witness ==
    /\ op.f = "str" /\ H.err = OK
    /\ LET b == H.b[op.self]
       IN  /\ \E i \in 1..Len(b._pieces) : b._pieces[i].b # 0 /\ H.b[b._pieces[i].b]._pieces # <<>>
           /\ b._endtag # <<>>
           /\ Len(b._stack) = 2 /\ b._stack[1] # b._stack[2] /\ b._endtag # b._stack[2]
           /\ out = PiecesInOrder(H, b._pieces) \o b._endtag \o b._stack[2] \o b._stack[1]

\* C9: opening a tag appends the pending end tag (if any), then the opening tag;
\* the pending end tag becomes the new tag's end tag unless the mangled name is
\* in the omit-set, then it is empty; stack and slots stay, the Builder is returned.
C9_OpenTag ==
    [][op'.f = "tag" =>
        LET self == op'.self
            tagname == mangle(op'.name)
            b == H.b[self]
            b2 == H'.b[self]
        IN  /\ b2._pieces = b._pieces \o (IF b._endtag # <<>> THEN <<StrPiece(b._endtag)>> ELSE <<>>) \o <<StrPiece(<<"<">> \o tagname \o <<">">>)>>
            /\ b2._endtag = (IF tagname \in omit_endtag THEN <<>> ELSE <<"<", "/">> \o tagname \o <<">">>)
            /\ b2._stack = b._stack
            /\ b2._templates = b._templates
            /\ H'.err = OK /\ H'.ret = self
            /\ \A x \in 1..NB : x # self => H'.b[x] = H.b[x]]_vars

\* A tag whose mangled name differs from the attribute name and lies in the
\* omit-set was opened while an end tag was pending.
C9_Witness ==
    /\ op.f = "tag" /\ mangle(op.name) # op.name /\ mangle(op.name) \in omit_endtag
    /\ LET ps == H.b[op.self]._pieces
       IN  Len(ps) >= 2 /\ IsClosingTag(ps[Len(ps) - 1].s) /\ H.b[op.self]._endtag = <<>>

\* A Builder with its pending end tag appended as a piece.
Closed(b) == [b EXCEPT !._pieces = IF b._endtag # <<>> THEN Append(@, StrPiece(b._endtag)) ELSE @, !._endtag = <<>>]

MaxProgLen == 6

Tag(name) == [k |-> "tag", name |-> name]

EnterItem == [k |-> "enter", name |-> <<>>]

ExitItem == [k |-> "exit", name |-> <<>>]

ProgItems == {Tag(div), Tag(span), Tag(<<"p">>), EnterItem, ExitItem}

InitScopes == Start /\ in \in [1..MaxProgLen -> ProgItems]

NextItem == nops < Len(in) /\ H.err = OK

NextScopes ==
    \/ NextItem /\ in[nops + 1].k = "tag" /\ OpenTag(1, in[nops + 1].name)
    \/ NextItem /\ in[nops + 1].k = "enter" /\ Enter(1)
    \/ NextItem /\ in[nops + 1].k = "exit" /\ Exit(1)

SpecScopes == InitScopes /\ [][NextScopes]_vars

\* The end tags of the scopes entered and not yet left after the first n items
\* of a script whose calls all succeeded: an entry saves the end tag of the
\* tag opened just before it, an exit drops the one saved last.
RECURSIVE OpenScopes(_, _)
OpenScopes(prog, n) ==
    IF n = 0 THEN <<>>
    ELSE LET before == OpenScopes(prog, n - 1)
         IN  CASE prog[n].k = "enter" -> Append(before, EndMarkup(mangle(prog[n - 1].name)))
               [] prog[n].k = "exit" -> SubSeq(before, 1, Len(before) - 1)
               [] OTHER -> before

\* C11: entering a scope with no pending end tag is a usage error, otherwise
\* the pending end tag is pushed and cleared; exiting appends the pending end
\* tag (if any), then the end tag pushed last, and pops it; so after every
\* script whose calls succeeded the stack holds exactly the end tags of the
\* scopes still open, in entry order: a properly nested run of enter/exit pairs
\* restores the depth, leaves no pending end tag and appends the end tags
\* innermost first.
C11_ScopesLIFO ==
    /\ [][LET b == H.b[op'.self]
              b2 == H'.b[op'.self]
          IN  /\ op'.f = "enter" =>
                   IF b._endtag = <<>> THEN H'.err # OK /\ H'.b = H.b
                   ELSE /\ H'.err = OK
                        /\ b2._stack = Append(b._stack, b._endtag)
                        /\ b2._endtag = <<>> /\ b2._pieces = b._pieces
              /\ (op'.f = "exit" /\ b._stack # <<>>) =>
                   /\ H'.err = OK
                   /\ b2._pieces = b._pieces \o (IF b._endtag # <<>> THEN <<StrPiece(b._endtag)>> ELSE <<>>) \o <<StrPiece(b._stack[Len(b._stack)])>>
                   /\ b2._stack = SubSeq(b._stack, 1, Len(b._stack) - 1)
                   /\ b2._endtag = <<>>
              /\ op'.f = "tag" => b2._stack = b._stack]_vars
    /\ [](H.err = OK => H.b[1]._stack = OpenScopes(in, nops))

\* Two nested scopes with different end tags were entered and both left: the
\* stack is empty again and the inner end tag precedes the outer one.
C11_Witness ==
    /\ op.f = "exit" /\ H.err = OK /\ nops >= 6
    /\ in[nops - 1].k = "exit" /\ in[nops - 2].k = "enter" /\ in[nops - 4].k = "enter"
    /\ H.b[1]._stack = <<>> /\ H.b[1]._endtag = <<>>
    /\ LET ps == H.b[1]._pieces
       IN  /\ Len(ps) >= 4
           /\ ps[Len(ps) - 1] = StrPiece(EndMarkup(in[nops - 3].name))
           /\ ps[Len(ps)] = StrPiece(EndMarkup(in[nops - 5].name))
           /\ ps[Len(ps)] # ps[Len(ps) - 1]

\* C12: a slot insert on N appends a reference to the Builder stored under N,
\* making an empty Builder named N only when none is stored; it leaves the
\* pending end tag, the stack and every other Builder alone and returns the
\* receiver.  A plain read of N returns the stored Builder, or raises the
\* lookup error and creates nothing when none is stored.
C12_SlotInsert ==
    [][LET self == op'.self
           b == H.b[self]
           b2 == H'.b[self]
           stored == templates_get(H, self, op'.name)
           t == IF stored # 0 THEN stored ELSE H.n + 1
       IN  /\ op'.f = "slot_insert" =>
                /\ H'.err = OK /\ H'.ret = self
                /\ b2 = [b EXCEPT !._pieces = Append(@, BuilderPiece(t)), !._templates[op'.name] = t]
                /\ H'.n = (IF stored # 0 THEN H.n ELSE H.n + 1)
                /\ stored = 0 => H'.b[t] = Builder(op'.name)
                /\ \A x \in 1..NB : (x # self /\ ~(stored = 0 /\ x = t)) => H'.b[x] = H.b[x]
           /\ op'.f = "slot_read" =>
                /\ H'.b = H.b /\ H'.n = H.n
                /\ IF stored = 0 THEN H'.err = "AttributeError" ELSE H'.err = OK /\ H'.ret = stored]_vars

\* The slot was inserted a second time while an end tag was pending: both
\* pieces reference the one stored Builder and the end tag is still pending.
C12_Witness ==
    /\ op.f = "slot_insert" /\ H.err = OK
    /\ LET b == H.b[op.self]
           t == templates_get(H, op.self, op.name)
       IN  /\ b._endtag # <<>>
           /\ Cardinality(InsertionPoints(H, op.self, t)) >= 2
           /\ \A i \in 1..Len(b._pieces) : b._pieces[i].b \in {0, t}

\* ------------------------------------------------- Builders as content
\* Two Builders with tags, the slot A and a scope; the first is given the
\* second, a slot Builder (3 or 4, once made) or itself through _, alone or
\* between None and a text.
MaxAppendOps == 5

AppendContents == {<<BuilderArg(x)>> : x \in Live} \cup {<<None, BuilderArg(2), Text(hello)>>, <<None>>}

NextAppend ==
    \/ nops < MaxAppendOps /\ \E self \in {1, 2} : OpenTag(self, div)
    \/ nops < MaxAppendOps /\ \E self \in {1, 2} : SlotInsert(self, A)
    \/ nops < MaxAppendOps /\ Enter(1)
    \/ nops < MaxAppendOps /\ \E content \in AppendContents : Append_(1, content)

SpecAppend == Init /\ [][NextAppend]_vars

\* What one content item adds to the pieces of the receiver: nothing for None,
\* one reference for a Builder whose name is a slot name of the receiver, else
\* the Builder's own pieces; one escaped (or raw) text piece for a text.
ItemPieces(h, self, item) ==
    CASE item.t = "None" -> <<>>
      [] item.t = "Builder" -> (IF templates_get(h, self, h.b[item.b].name) # 0 THEN <<BuilderPiece(item.b)>> ELSE h.b[item.b]._pieces)
      [] item.t = "HTML" -> <<StrPiece(item.s)>>
      [] OTHER -> <<StrPiece(escape(item.s))>>

RECURSIVE AllItemPieces(_, _, _)
AllItemPieces(h, self, content) ==
    IF content = <<>> THEN <<>> ELSE ItemPieces(h, self, content[1]) \o AllItemPieces(h, self, Tail(content))

\* The slot map of the receiver after a content with one Builder item at
\* most: the entries of a spliced Builder replace or extend the receiver's.
MergedSlots(h, self, content) ==
    LET spliced == {i \in 1..Len(content) : content[i].t = "Builder" /\ templates_get(h, self, h.b[content[i].b].name) = 0}
    IN  [s \in SlotNames |->
            IF \E i \in spliced : h.b[content[i].b]._templates[s] # 0
            THEN h.b[content[CHOOSE i \in spliced : TRUE].b]._templates[s]
            ELSE h.b[self]._templates[s]]

\* C13: _ with a Builder item appends one reference piece when the item's name
\* is a slot name of the receiver, otherwise splices the item's pieces in order
\* and merges its slot map into the receiver's; None is skipped; the pending
\* end tag, the scope stack and every other Builder stay as they were.
C13_AppendBuilder ==
    [][(op'.f = "_" /\ H'.err = OK) =>
        LET self == op'.self
            b == H.b[self]
        IN  /\ H'.b[self] = [b EXCEPT !._pieces = @ \o AllItemPieces(H, self, op'.content),
                                       !._templates = MergedSlots(H, self, op'.content)]
            /\ H'.b[self]._endtag = b._endtag /\ H'.b[self]._stack = b._stack
            /\ \A x \in 1..NB : x # self => H'.b[x] = H.b[x]
            /\ H'.ret = self]_vars

\* A Builder that holds two pieces and a stored slot, and whose name is no slot
\* name of the receiver, was appended between None and a text while the
\* receiver had a pending end tag: pieces spliced, slot adopted.
C13_Witness ==
    /\ op.f = "_" /\ H.err = OK /\ op.content = <<None, BuilderArg(2), Text(hello)>>
    /\ Len(H.b[2]._pieces) >= 2 /\ H.b[2]._templates[A] # 0
    /\ H.b[1]._templates[A] = H.b[2]._templates[A]
    /\ H.b[1]._endtag # <<>>
    /\ LET ps == H.b[1]._pieces
           n == Len(H.b[2]._pieces)
       IN  /\ Len(ps) >= n + 2
           /\ SubSeq(ps, Len(ps) - n, Len(ps) - 1) = H.b[2]._pieces
           /\ ps[Len(ps)] = StrPiece(hello)

\* ---------------------------------------------------------------- comments
\* One comment with a text over "-", ">" and a letter, drawn at the start.
MaxTextLen == 4

CommentChars == {"-", ">", "a"}

CommentTexts == UNION {[1..n -> CommentChars] : n \in 0..MaxTextLen}

InitComment == Start /\ in \in CommentTexts

NextComment == nops = 0 /\ Comment(1, in)

SpecComment == InitComment /\ [][NextComment]_vars

\* The positions at which pat starts in s.
Occurrences(s, pat) == {i \in 1..(Len(s) - Len(pat) + 1) : SubSeq(s, i, i + Len(pat) - 1) = pat}

\* C14: the piece the comment operation appends holds the comment-closing
\* sequence "-->" exactly once, as its last three characters, whatever the text.
C14_SingleComment ==
    op.f = "_comment" =>
        LET p == H.b[1]._pieces[Len(H.b[1]._pieces)].s
        IN  Occurrences(p, <<"-", "-", ">">>) = {Len(p) - 2}

\* --------------------------------------------------------------- attributes
\* tag(**attrs) on a tag just opened; the attribute map (insertion-ordered,
\* distinct names) is drawn at the start.
MaxAttrs == 3

AttrNames == {<<"i","d">>, <<"h","i","d","d","e","n">>, <<"d","i","s","a","b","l","e","d">>, <<"d","a","t","a","_","x">>}

Str(s) == [t |-> "str", s |-> s]

AttrValues == {[t |-> "None", s |-> <<>>], [t |-> "False", s |-> <<>>], [t |-> "True", s |-> <<>>],
               Str(<<"x">>), Str(<<"a", " ", "b">>), Str(<<"a", "&", "\"">>), Str(<<>>)}

AttrMaps ==
    {m \in UNION {[1..n -> [k : AttrNames, v : AttrValues]] : n \in 0..MaxAttrs} :
        \A i, j \in 1..Len(m) : i # j => m[i].k # m[j].k}

InitAttrs == Start /\ in \in AttrMaps

NextAttrs ==
    \/ nops = 0 /\ \E name \in {div, <<"p">>} : OpenTag(1, name)
    \/ nops = 1 /\ CallBuilder(1, <<>>, in)

SpecAttrs == InitAttrs /\ [][NextAttrs]_vars

\* One character of a quoted attribute value.
QuotedChar(c) ==
    CASE c = "&" -> <<"&","a","m","p",";">>
      [] c = "\"" -> <<"&","q","u","o","t",";">>
      [] OTHER -> <<c>>

RECURSIVE QuotedValue(_)
QuotedValue(s) == IF s = <<>> THEN <<>> ELSE QuotedChar(s[1]) \o QuotedValue(Tail(s))

\* The text one attribute adds to the tag; its name is the mangled key.
AttrText(a) ==
    CASE a.v.t \in {"None", "False"} -> <<>>
      [] a.v.t = "True" -> <<" ">> \o mangle(a.k)
      [] a.v.t = "str" /\ isalnum(a.v.s) -> <<" ">> \o mangle(a.k) \o <<"=">> \o a.v.s
      [] OTHER -> <<" ">> \o mangle(a.k) \o <<"=", "\"">> \o QuotedValue(a.v.s) \o <<"\"">>

RECURSIVE AttrsText(_)
AttrsText(m) == IF m = <<>> THEN <<>> ELSE AttrText(m[1]) \o AttrsText(Tail(m))

IdHiddenDisabled ==
    <<[k |-> <<"i","d">>, v |-> Str(<<"x">>)], [k |-> <<"h","i","d","d","e","n">>, v |-> [t |-> "True", s |-> <<>>]],
      [k |-> <<"d","i","s","a","b","l","e","d">>, v |-> [t |-> "False", s |-> <<>>]]>>

\* The opening tag after the attributes were attached.
TagWithAttrs == H.b[1]._pieces[Len(H.b[1]._pieces)].s

\* C15: the attributes are written into the open tag in the map's order: None
\* and False omitted, True as the bare name, an alphanumeric value unquoted,
\* any other value quoted with & and " escaped; {id: "x", hidden: True,
\* disabled: False} on div gives <div id=x hidden>.
C15_Attributes ==
    (op.f = "call" /\ in # <<>>) =>
        /\ H.err = OK
        /\ \E name \in {div, <<"p">>} : TagWithAttrs = <<"<">> \o name \o AttrsText(in) \o <<">">>
        /\ (in = IdHiddenDisabled /\ TagWithAttrs[2] = "d") =>
               TagWithAttrs = <<"<","d","i","v"," ","i","d","=","x"," ","h","i","d","d","e","n",">">>

\* {id: "x", hidden: True, disabled: False} was attached to <div>.
C15_Witness ==
    /\ op.f = "call" /\ H.err = OK /\ in = IdHiddenDisabled
    /\ TagWithAttrs = <<"<","d","i","v"," ","i","d","=","x"," ","h","i","d","d","e","n",">">>

\* ------------------------------------------------------------------ mangle
\* One tag opened by an attribute name over two letters and the underscore,
\* drawn at the start (a name that starts with an underscore is no tag name).
MaxNameLen == 4

NameChars == {"a", "b", "_"}

Names == UNION {[1..n -> NameChars] : n \in 1..MaxNameLen}

InitMangle == Start /\ in \in Names

NextMangle == nops = 0 /\ OpenTag(1, in)

SpecMangle == InitMangle /\ [][NextMangle]_vars

\* The name with exactly one trailing underscore removed, if it has one.
StripOne(name) == IF name # <<>> /\ name[Len(name)] = "_" THEN SubSeq(name, 1, Len(name) - 1) ELSE name

Hyphenated(name) == [i \in 1..Len(name) |-> IF name[i] = "_" THEN "-" ELSE name[i]]

\* C16: the tag name written for an attribute name is the name with exactly
\* one trailing underscore stripped and every remaining underscore replaced by
\* a hyphen, also for names that end in two or more underscores.
C16_MangleStripsOne ==
    (op.f = "tag" /\ H.err = OK) =>
        H.b[1]._pieces[Len(H.b[1]._pieces)] = StrPiece(OpenMarkup(Hyphenated(StripOne(in))))

\* ------------------------------------------------------------ closing tags
\* The flattened piece at position j is an end tag.
IsClosingPiece(j) ==
    /\ ~isinstance_Builder(nc.pieces[j]) /\ nc.pieces[j].s # DOCTYPE
    /\ _parse_tag(nc.pieces[j].s).tag_name \notin {COMMENT_KEY, TEXT_KEY}
    /\ _parse_tag(nc.pieces[j].s).is_closing

\* The pass has handled an end tag.
ClosingSeen == \E j \in 1..Len(nc.pieces) : j < nc.i /\ IsClosingPiece(j)

\* The stack positions whose node has the name of the end tag at hand.
Matching == {k \in 1..Len(nc.stack) : nc.nodes[nc.stack[k]]._name = parsed.tag_name}

\* C17: an end tag closes and pops the open nodes from the top down to and
\* including the topmost node of its name and raises nothing, and a pass that
\* has handled an end tag (in order, out of order, or for an element the
\* content model had closed already) does not end in an error.
C17_CloseByName ==
    /\ [][op'.f = "parse_close" =>
            /\ nc'.err = OK
            /\ Matching # {} =>
                 /\ nc'.stack = SubSeq(nc.stack, 1, topmost(Matching) - 1)
                 /\ \A k \in topmost(Matching)..Len(nc.stack) : nc'.nodes[nc.stack[k]]._closed]_vars
    /\ [](ClosingSeen => nc.phase # "error")

\* ------------------------------------------------------------ the root
\* C18: while the pieces are being handled the root is the bottom of the
\* open-node stack (so the stack is not empty) and is not closed; the root is
\* closed only once every piece has been handled, by the final force-close.
C18_RootAtBottom ==
    /\ nc.phase = "run" =>
          /\ nc.stack # <<>>
          /\ nc.stack[1] = 1
          /\ \A k \in 2..Len(nc.stack) : nc.stack[k] # 1
          /\ ~nc.nodes[1]._closed
    /\ nc.phase \in {"done", "error"} /\ nc.nodes[1]._closed => nc.i > Len(nc.pieces)

\* ------------------------------------------------------------ attaching
\* The nodes of t that hold node n as a child.
Parents(t, n) == {j \in 1..Len(t.nodes) : n \in Range(t.nodes[j]._children)}

\* The nodes made for opening tags.
OpenedElements(t) ==
    {k \in 1..Len(t.nodes) : t.nodes[k]._name \notin {ROOT_KEY, DOCTYPE_KEY, COMMENT_KEY, TEXT_KEY}}

\* C19: an opening tag makes one new node, which becomes the child of exactly
\* one node of the open-node stack and is then pushed, without an error; in a
\* returned tree every node made for an opening tag has a parent.
C19_AttachedOnce ==
    /\ [][op'.f = "parse_open" =>
            LET new == Len(nc.nodes) + 1
            IN  /\ nc'.err = OK
                /\ Len(nc'.nodes) = new
                /\ Cardinality(Parents(nc', new)) = 1
                /\ Parents(nc', new) \subseteq Range(nc.stack)
                /\ nc'.stack # <<>> /\ nc'.stack[Len(nc'.stack)] = new]_vars
    /\ [](nc.phase = "done" => \A k \in OpenedElements(nc) : Parents(nc, k) # {})

\* ------------------------------------------------------------ flattening
RECURSIVE Joined(_)
\* "".join over the string parts of a piece list.
Joined(frags) == IF Len(frags) = 0 THEN <<>> ELSE frags[1].s \o Joined(Tail(frags))

\* C20: the piece list that create() classifies holds strings only, however
\* deep the template-slot Builders are nested, and its concatenation is the
\* render of the Builder.
C20_FlattenDeep ==
    [][op'.f = "create" =>
          /\ \A j \in 1..Len(nc'.pieces) : ~isinstance_Builder(nc'.pieces[j])
          /\ Joined(nc'.pieces) = str(H', nc'.builder)]_vars

\* ------------------------------------------------------------ read-only pass
\* The steps of NodeCreator.create.
CreateSteps ==
    {"create", "parse_builder", "parse_doctype", "parse_comment", "parse_text", "parse_close", "parse_open", "finish"}

\* C21: no step of create(), whether the call returns or raises, changes the
\* pieces, the pending end tag, the scope stack or the slot map of any
\* Builder, so the render of the Builder it was given stays the same.
C21_CreateReadOnly ==
    [][op'.f \in CreateSteps =>
          /\ H'.b = H.b
          /\ H'.n = H.n
          /\ str(H', nc'.builder) = str(H, nc'.builder)]_vars

\* ------------------------------------------------------------ pending end tag
\* The position of the last piece of b that is an opening tag, 0 when none is.
LastOpening(b) ==
    topmost({i \in 1..Len(b._pieces) : ~isinstance_Builder(b._pieces[i]) /\ IsOpeningTag(b._pieces[i].s)})

\* C22: a pending end tag is the end tag of the last opening tag among the
\* pieces, and a call with attributes made while an end tag is pending rewrites
\* that opening tag and no other piece.
C22_PendingEndTag ==
    /\ [](\A self \in Live :
            LET b == H.b[self]
            IN  b._endtag # <<>> =>
                  /\ LastOpening(b) # 0
                  /\ b._endtag = EndMarkup(_parse_tag(b._pieces[LastOpening(b)].s).tag_name))
    /\ [][(op'.f = "call" /\ op'.attrs # <<>> /\ H'.err = OK /\ H.b[op'.self]._endtag # <<>>) =>
            LET b == H.b[op'.self]
                b2 == H'.b[op'.self]
                k == LastOpening(b)
            IN  /\ k # 0
                /\ Len(b2._pieces) >= Len(b._pieces)
                /\ b2._pieces[k] = StrPiece(SubSeq(b._pieces[k].s, 1, Len(b._pieces[k].s) - 1) \o attributes(op'.attrs) \o <<">">>)
                /\ \A i \in 1..Len(b._pieces) : i # k => b2._pieces[i] = b._pieces[i]]_vars

\* ------------------------------------------------------------ doctype
\* Documents of up to MaxDocOps calls on Builder 1 (tags, a scope, text, the
\* doctype as raw markup) and their reconstruction.
MaxDocOps == 5

NextDoctype ==
    \/ nops < MaxDocOps /\ \E name \in {div, span, <<"p">>} : OpenTag(1, name)
    \/ nops < MaxDocOps /\ Enter(1)
    \/ nops < MaxDocOps /\ Exit(1)
    \/ nops < MaxDocOps /\ CallBuilder(1, <<Text(hello)>>, NoAttrs)
    \/ nops < MaxDocOps /\ CallBuilder(1, <<HTML(DOCTYPE)>>, NoAttrs)
    \/ Create(1)
    \/ ParseDoctype
    \/ ParseText
    \/ ParseClosingTag
    \/ ParseOpeningTag
    \/ Finish

SpecDoctype == Init /\ [][NextDoctype]_vars

\* The flattened piece at position j is an opening tag.
IsOpeningPiece(j) ==
    /\ ~isinstance_Builder(nc.pieces[j]) /\ nc.pieces[j].s # DOCTYPE
    /\ _parse_tag(nc.pieces[j].s).tag_name \notin {COMMENT_KEY, TEXT_KEY}
    /\ ~_parse_tag(nc.pieces[j].s).is_closing

\* C23: at the doctype piece, a stack that holds a node besides the root makes
\* create() raise; otherwise a doctype node becomes the last child of the root
\* and the stack stays as it is; a doctype piece that follows an opening tag is
\* rejected.
C23_Doctype ==
    [][op'.f = "parse_doctype" =>
          /\ IF \E k \in 1..Len(nc.stack) : nc.stack[k] # 1
             THEN nc'.err # OK
             ELSE /\ nc'.err = OK
                  /\ nc'.stack = nc.stack
                  /\ Len(nc'.nodes) = Len(nc.nodes) + 1
                  /\ nc'.nodes[Len(nc'.nodes)]._name = DOCTYPE_KEY
                  /\ nc'.nodes[1]._children = Append(nc.nodes[1]._children, Len(nc'.nodes))
          /\ (\E j \in 1..(nc.i - 1) : IsOpeningPiece(j)) => nc'.err # OK]_vars

\* ------------------------------------------------------------ text pieces
\* Documents of up to MaxTextOps calls on Builder 1: div (text-allowed), br and
\* body (not text-allowed), scopes and two texts, and their reconstruction.
MaxTextOps == 4

br == <<"b", "r">>

body == <<"b", "o", "d", "y">>

NextText ==
    \/ nops < MaxTextOps /\ \E name \in {div, br, body} : OpenTag(1, name)
    \/ nops < MaxTextOps /\ Enter(1)
    \/ nops < MaxTextOps /\ Exit(1)
    \/ nops < MaxTextOps /\ \E text \in {hello, <<"x">>} : CallBuilder(1, <<Text(text)>>, NoAttrs)
    \/ Create(1)
    \/ ParseText
    \/ ParseClosingTag
    \/ ParseOpeningTag
    \/ Finish

SpecText == Init /\ [][NextText]_vars

\* The stack positions whose node is text-allowed.
TextAllowedAt(t) == {k \in 1..Len(t.stack) : t.nodes[t.stack[k]]._name \in TEXT_ALLOWED_ELEMENTS}

\* C24: a text piece is appended to the content of the topmost text-allowed
\* node of the stack and to no other node, the nodes above it are not
\* text-allowed, nothing is raised and the stack stays; in a returned tree only
\* text-allowed nodes and comment nodes have text content.
C24_TextPlacement ==
    /\ [][op'.f = "parse_text" =>
            /\ nc'.err = OK
            /\ nc'.stack = nc.stack
            /\ Len(nc'.nodes) = Len(nc.nodes)
            /\ \A n \in 1..Len(nc.nodes) :
                 IF TextAllowedAt(nc) # {} /\ n = nc.stack[topmost(TextAllowedAt(nc))]
                 THEN nc'.nodes[n] = [nc.nodes[n] EXCEPT !._content = @ \o piece.s]
                 ELSE nc'.nodes[n] = nc.nodes[n]]_vars
    /\ [](nc.phase = "done" =>
            \A n \in 1..Len(nc.nodes) :
                nc.nodes[n]._content # <<>> => nc.nodes[n]._name \in TEXT_ALLOWED_ELEMENTS \cup {COMMENT_KEY})

\* A non-empty text piece was handled while the top of the stack was not
\* text-allowed and a node below it was: the text went to that node.
C24_Witness ==
    /\ op.f = "parse_text" /\ nc.err = OK
    /\ nc.pieces[nc.i - 1].s # <<>>
    /\ Len(nc.stack) >= 3
    /\ nc.nodes[nc.stack[Len(nc.stack)]]._name \notin TEXT_ALLOWED_ELEMENTS
    /\ nc.nodes[nc.stack[Len(nc.stack)]]._content = <<>>
    /\ \E k \in 2..(Len(nc.stack) - 1) : nc.nodes[nc.stack[k]]._content = nc.pieces[nc.i - 1].s

\* ------------------------------------------------------------ closed flags
\* Documents of up to MaxCloseOps calls on Builder 1: span and p (p has no end
\* tag and is not permitted in span), scopes, a comment and the doctype, and
\* their reconstruction.
MaxCloseOps == 5

NextClose ==
    \/ nops < MaxCloseOps /\ \E name \in {span, <<"p">>} : OpenTag(1, name)
    \/ nops < MaxCloseOps /\ Enter(1)
    \/ nops < MaxCloseOps /\ Exit(1)
    \/ nops < MaxCloseOps /\ Comment(1, <<"x">>)
    \/ nops < MaxCloseOps /\ CallBuilder(1, <<HTML(DOCTYPE)>>, NoAttrs)
    \/ Create(1)
    \/ ParseDoctype
    \/ ParseComment
    \/ ParseText
    \/ ParseClosingTag
    \/ ParseOpeningTag
    \/ Finish

SpecClose == Init /\ [][NextClose]_vars

RECURSIVE InTree(_, _)
\* Node n is the root of t or the child of a node of the tree (a child is made
\* after its parent).
InTree(t, n) == n = 1 \/ \E j \in 1..(n - 1) : n \in Range(t.nodes[j]._children) /\ InTree(t, j)

\* C25: every node of a returned tree is closed; no step of the pass changes
\* the children or the text of a node that is closed; the children of a closed
\* node are closed.
C25_AllClosed ==
    /\ [](nc.phase = "done" => \A n \in 1..Len(nc.nodes) : InTree(nc, n) => nc.nodes[n]._closed)
    /\ [](\A n \in 1..Len(nc.nodes) :
            nc.nodes[n]._closed => \A c \in Range(nc.nodes[n]._children) : nc.nodes[c]._closed)
    /\ [][op'.f \in CreateSteps \ {"create"} =>
            \A n \in 1..Len(nc.nodes) :
                nc.nodes[n]._closed =>
                    /\ nc'.nodes[n]._children = nc.nodes[n]._children
                    /\ nc'.nodes[n]._content = nc.nodes[n]._content]_vars

\* A pass returned a tree with a doctype node, a comment node and an element,
\* and nodes were still open when the root was force-closed.
C25_Witness ==
    /\ nc.phase = "done" /\ nc.stack # <<>>
    /\ \E n \in 1..Len(nc.nodes) : InTree(nc, n) /\ nc.nodes[n]._name = DOCTYPE_KEY /\ nc.nodes[n]._closed
    /\ \E n \in 1..Len(nc.nodes) : InTree(nc, n) /\ nc.nodes[n]._name = COMMENT_KEY /\ nc.nodes[n]._closed
    /\ \E n \in 1..Len(nc.nodes) : InTree(nc, n) /\ IsElement(nc.nodes[n]) /\ nc.nodes[n]._closed

\* ------------------------------------------------------------ inline code
\* Code strings made of up to MaxCodeToks tokens: the two end tags in lower,
\* upper and mixed case, an end tag without its ">", an escaped end tag, and
\* single characters.
MaxCodeToks == 3

CodeTokens ==
    {<<"<","/","s","c","r","i","p","t",">">>, <<"<","/","S","c","R","I","P","T",">">>,
     <<"<","/","s","t","y","l","e",">">>, <<"<","/","S","T","Y","L","E",">">>,
     <<"<","/","s","c","r","i","p","t">>, <<"<","\\","/","s","c","r","i","p","t",">">>,
     <<"<">>, <<"/">>, <<"x">>}

RECURSIVE Codes(_)
Codes(n) == IF n = 0 THEN {<<>>} ELSE Codes(n - 1) \cup {c \o t : c \in Codes(n - 1), t \in CodeTokens}

InitInline == Start /\ in \in Codes(MaxCodeToks)

\* E._script(code) or E._style(code), with or without attributes, on the
\* empty Builder or after E.div (a pending end tag).
NextInline ==
    \/ nops = 0 /\ OpenTag(1, div)
    \/ nops <= 1 /\ op.f \notin {"_script", "_style"} /\ \E attrs \in {NoAttrs, id_x} : Script(1, in, attrs)
    \/ nops <= 1 /\ op.f \notin {"_script", "_style"} /\ \E attrs \in {NoAttrs, id_x} : Style(1, in, attrs)

SpecInline == InitInline /\ [][NextInline]_vars

\* s with every letter in lower case.
Lowered(s) == [i \in 1..Len(s) |-> lower(s[i])]

RECURSIVE OnlyEndTagsEscaped(_, _, _)
\* res is code with a backslash put between "<" and "/" of every occurrence of
\* the end tag (in any case), and with every other character as it was.
OnlyEndTagsEscaped(code, res, endtag) ==
    LET n == Len(endtag)
    IN  IF Len(code) = 0 THEN res = <<>>
        ELSE IF Len(code) >= n /\ Lowered(SubSeq(code, 1, n)) = endtag
             THEN /\ Len(res) >= n + 1
                  /\ SubSeq(res, 1, n + 1) = <<"<", "\\">> \o SubSeq(code, 2, n)
                  /\ OnlyEndTagsEscaped(SubSeq(code, n + 1, Len(code)), SubSeq(res, n + 2, Len(res)), endtag)
             ELSE /\ Len(res) >= 1 /\ res[1] = code[1]
                  /\ OnlyEndTagsEscaped(Tail(code), Tail(res), endtag)

\* C26: _script and _style first append the pending end tag and then one piece,
\* the opening tag with the attributes, the code and the end tag; in that piece
\* the end tag, in any case, occurs once, as the suffix, and the code differs
\* from the argument only by the backslash put into each end tag it held.
C26_InlineEscaped ==
    [][op'.f \in {"_script", "_style"} =>
          LET b == H.b[op'.self]
              b2 == H'.b[op'.self]
              name == IF op'.f = "_script" THEN <<"s","c","r","i","p","t">> ELSE <<"s","t","y","l","e">>
              opening == <<"<">> \o name \o attributes(op'.attrs) \o <<">">>
              code == op'.content[1].s
              p == b2._pieces[Len(b2._pieces)].s
          IN  /\ H'.err = OK
              /\ b2._endtag = <<>>
              /\ Len(b2._pieces) = Len(b._pieces) + (IF b._endtag = <<>> THEN 1 ELSE 2)
              /\ SubSeq(b2._pieces, 1, Len(b._pieces)) = b._pieces
              /\ b._endtag # <<>> => b2._pieces[Len(b._pieces) + 1] = StrPiece(b._endtag)
              /\ ~isinstance_Builder(b2._pieces[Len(b2._pieces)])
              /\ Occurrences(Lowered(p), EndMarkup(name)) = {Len(p) - Len(EndMarkup(name)) + 1}
              /\ Len(p) >= Len(opening) + Len(EndMarkup(name))
              /\ SubSeq(p, 1, Len(opening)) = opening
              /\ OnlyEndTagsEscaped(code, SubSeq(p, Len(opening) + 1, Len(p) - Len(EndMarkup(name))), EndMarkup(name))]_vars

\* _script closed the pending end tag of a div and wrote code that held the
\* script end tag in mixed case and another token.
C26_Witness ==
    /\ op.f = "_script" /\ H.err = OK
    /\ Len(H.b[1]._pieces) = 3
    /\ Occurrences(in, <<"<","/","S","c","R","I","P","T",">">>) # {}
    /\ Len(in) > 9
    /\ Occurrences(H.b[1]._pieces[3].s, <<"<","\\","/","S","c","R","I","P","T",">">>) # {}

\* ------------------------------------------------------------ piece graph
\* Up to MaxCycleOps calls: a slot inserted into Builder 1, Builders (the slot
\* Builder and its parent included) appended to Builders, values (the parent
\* included) assigned to the slot, and renders.
MaxCycleOps == 3

NextCycle ==
    \/ nops < MaxCycleOps /\ SlotInsert(1, A)
    \/ nops < MaxCycleOps /\ \E self \in {1, 2} : OpenTag(self, div)
    \/ nops < MaxCycleOps /\ \E self \in Live, c \in Live : Append_(self, <<BuilderArg(c)>>)
    \/ nops < MaxCycleOps /\ \E value \in {Text(hello), BuilderArg(1), BuilderArg(2)} : SlotAssign(1, A, value)
    \/ \E self \in Live : Render(self)

SpecCycle == Init /\ [][NextCycle]_vars

\* C27: no Builder is reachable from one of its own Builder pieces, and no
\* render runs into unbounded recursion.
C27_Acyclic ==
    /\ \A self \in Live : \A j \in 1..Len(H.b[self]._pieces) :
          LET p == H.b[self]._pieces[j]
          IN  isinstance_Builder(p) => self \notin Reach(H, {p.b}, NB)
    /\ op.f = "str" => H.err # "RecursionError"

\* ------------------------------------------------------------ misuse
\* Up to MaxMisuseOps calls on Builder 1, right and wrong: tags, a slot insert,
\* slot reads (B is never declared), attributes and content, the Builder itself
\* as content, alone and after a text, values (its own Builder included)
\* assigned to the slot, and scopes entered.
MaxMisuseOps == 3

NextMisuse ==
    \/ nops < MaxMisuseOps /\ OpenTag(1, div)
    \/ nops < MaxMisuseOps /\ SlotInsert(1, A)
    \/ nops < MaxMisuseOps /\ \E name \in {A, <<"B">>} : SlotRead(1, name)
    \/ nops < MaxMisuseOps /\ \E content \in {<<>>, <<Text(hello)>>}, attrs \in {NoAttrs, id_x} : CallBuilder(1, content, attrs)
    \/ nops < MaxMisuseOps /\ \E content \in {<<BuilderArg(1)>>, <<Text(hello), BuilderArg(1)>>} : Append_(1, content)
    \/ nops < MaxMisuseOps /\ \E value \in {Text(hello)} \cup {BuilderArg(c) : c \in Live \ {1, 2}} : SlotAssign(1, A, value)
    \/ nops < MaxMisuseOps /\ Enter(1)

SpecMisuse == Init /\ [][NextMisuse]_vars

\* C28: a Builder call that raises leaves the pieces, the pending end tag, the
\* scope stack and the slot map of every Builder as they were before the call.
C28_ErrorLeavesState ==
    [][(nops' = nops + 1 /\ H'.err # OK) => (H'.b = H.b /\ H'.n = H.n)]_vars

\* ------------------------------------------------------------ slot references
\* C29: every Builder piece of a Builder is the Builder that its slot map
\* holds under the name of that piece.
C29_SlotRefsStored ==
    \A self \in Live : \A j \in 1..Len(H.b[self]._pieces) :
        LET p == H.b[self]._pieces[j]
        IN  isinstance_Builder(p) => templates_get(H, self, H.b[p.b].name) = p.b

\* ------------------------------------------------------------ text pieces as tags
\* One text of up to MaxPieceLen characters given to Builder 1 as content,
\* bare or inside a div, and the reconstruction of the result.
MaxPieceLen == 3

PieceChars == {"a", "=", "<", "-"}

PieceTexts == UNION {[1..n -> PieceChars] : n \in 0..MaxPieceLen}

InitPiece == Start /\ in \in PieceTexts

NextPiece ==
    \/ nops = 0 /\ OpenTag(1, div)
    \/ nops <= 1 /\ op.f # "call" /\ CallBuilder(1, <<Text(in)>>, NoAttrs)
    \/ Create(1)
    \/ ParseText
    \/ ParseClosingTag
    \/ ParseOpeningTag
    \/ Finish

SpecPiece == InitPiece /\ [][NextPiece]_vars

\* C30: the piece that the escaping path made of a text is handled as plain
\* text: the step is the text step and makes no node.
C30_TextIsText ==
    [][(AtPiece /\ ~isinstance_Builder(piece) /\ piece.s = escape(in) /\ nc'.i = nc.i + 1) =>
          /\ op'.f = "parse_text"
          /\ Len(nc'.nodes) = Len(nc.nodes)]_vars

\* ------------------------------------------------------------ opening tags
\* HTMLNode.opening_tag: "<" name, then " " and the attributes as key=value
\* joined by " " when there are any, then ">" (str(None) is "None").
RECURSIVE join_attributes(_)
join_attributes(attrs) ==
    IF Len(attrs) = 0 THEN <<>>
    ELSE attrs[1].k \o <<"=">> \o attrs[1].v \o (IF Len(attrs) = 1 THEN <<>> ELSE <<" ">> \o join_attributes(Tail(attrs)))

opening_tag(node) ==
    <<"<">> \o (IF node._name = NoneType THEN <<"N","o","n","e">> ELSE node._name)
            \o (IF Len(node._attributes) > 0 THEN <<" ">> \o join_attributes(node._attributes) ELSE <<>>)
            \o <<">">>

\* One opening tag on Builder 1 (div, or custom_tag, whose mangled name has a
\* hyphen), an attribute map of up to MaxTagAttrs entries attached to it, and
\* the reconstruction of the result.
MaxTagAttrs == 2

custom_tag == <<"c","u","s","t","o","m","_","t","a","g">>

InitOpening == Start /\ in \in {m \in AttrMaps : Len(m) <= MaxTagAttrs}

NextOpening ==
    \/ nops = 0 /\ \E name \in {div, custom_tag} : OpenTag(1, name)
    \/ nops = 1 /\ CallBuilder(1, <<>>, in)
    \/ nops >= 1 /\ Create(1)
    \/ ParseClosingTag
    \/ ParseOpeningTag
    \/ Finish

SpecOpening == InitOpening /\ [][NextOpening]_vars

\* The tag name written in an opening-tag piece: what stands between "<" and
\* the first blank or ">".
PieceTagName(s) ==
    LET stop == CHOOSE k \in 2..Len(s) : s[k] \in {" ", ">"} /\ \A j \in 2..(k - 1) : s[j] \notin {" ", ">"}
    IN  SubSeq(s, 2, stop - 1)

RECURSIVE WrittenKeys(_)
\* The names of the attributes that the Builder wrote for the map m, in order.
WrittenKeys(m) ==
    IF m = <<>> THEN <<>>
    ELSE (IF m[1].v.t \in {"None", "False"} THEN <<>> ELSE <<mangle(m[1].k)>>) \o WrittenKeys(Tail(m))

\* C31: the node made for an opening-tag piece has the tag name of the piece
\* and the attributes of the piece, in order, and its opening_tag is the piece.
C31_OpeningTagParsed ==
    [][op'.f = "parse_open" =>
          LET node == nc'.nodes[Len(nc'.nodes)]
          IN  /\ nc'.err = OK
              /\ Len(nc'.nodes) = Len(nc.nodes) + 1
              /\ node._name = PieceTagName(piece.s)
              /\ [j \in 1..Len(node._attributes) |-> node._attributes[j].k] = (IF nc.at = 2 THEN WrittenKeys(in) ELSE <<>>)
              /\ opening_tag(node) = piece.s]_vars

\* ------------------------------------------------------------ text kept
RECURSIVE TextLength(_, _)
\* The characters of the plain-text pieces among the first j pieces of a pass.
TextLength(t, j) ==
    IF j = 0 THEN 0
    ELSE TextLength(t, j - 1)
           + (IF ~isinstance_Builder(t.pieces[j]) /\ t.pieces[j].s # DOCTYPE /\ _parse_tag(t.pieces[j].s).tag_name = TEXT_KEY
              THEN Len(t.pieces[j].s) ELSE 0)

RECURSIVE TreeTextLength(_, _)
\* The characters of text content held by those of the first n nodes that are
\* in the tree, comment nodes apart.
TreeTextLength(t, n) ==
    IF n = 0 THEN 0
    ELSE TreeTextLength(t, n - 1)
           + (IF InTree(t, n) /\ t.nodes[n]._name # COMMENT_KEY THEN Len(t.nodes[n]._content) ELSE 0)

\* C32: a non-empty text piece is appended to the content of exactly one node,
\* and a returned tree holds all the text of the pieces.
C32_NoTextLost ==
    /\ [][(op'.f = "parse_text" /\ piece.s # <<>>) =>
            /\ nc'.err = OK
            /\ Cardinality({n \in 1..Len(nc.nodes) : nc'.nodes[n]._content # nc.nodes[n]._content}) = 1
            /\ \A n \in 1..Len(nc.nodes) :
                 nc'.nodes[n]._content \in {nc.nodes[n]._content, nc.nodes[n]._content \o piece.s}]_vars
    /\ [](nc.phase = "done" => TreeTextLength(nc, Len(nc.nodes)) = TextLength(nc, Len(nc.pieces)))

====
